---- MODULE Spec2Model ----
(***************************************************************************)
(* Model of the eurogames-api worker: the fetch entry point, the CORS      *)
(* preflight, the API-key authenticator, the permission model, the route   *)
(* table with its path matcher and the handlers' effect on the D1 store.   *)
(*                                                                         *)
(* JavaScript strings are modelled as sequences of one-character strings,  *)
(* so that split, trim, slice, startsWith, includes and toLowerCase are    *)
(* computed as the code computes them.                                     *)
(***************************************************************************)
EXTENDS Integers, Sequences, FiniteSets, TLC

VARIABLES env, db, req, pc, auth, resp, handler, queries, failure, match, grant, race

vars == <<env, db, req, pc, auth, resp, handler, queries, failure, match, grant, race>>

(***************************************************************************)
(* String literals of the source and of the inputs.                        *)
(***************************************************************************)
M_GET ==
    <<"G","E","T">>
M_POST ==
    <<"P","O","S","T">>
M_PUT ==
    <<"P","U","T">>
M_PATCH ==
    <<"P","A","T","C","H">>
M_DELETE ==
    <<"D","E","L","E","T","E">>
M_OPTIONS ==
    <<"O","P","T","I","O","N","S">>
M_HEAD ==
    <<"H","E","A","D">>
L_admin ==
    <<"a","d","m","i","n">>
L_user ==
    <<"u","s","e","r">>
L_read_only ==
    <<"r","e","a","d","-","o","n","l","y">>
L_readonly ==
    <<"r","e","a","d","o","n","l","y">>
S_false ==
    <<"f","a","l","s","e">>
S_Bearer ==
    <<"B","e","a","r","e","r"," ">>
P_root ==
    <<"/">>
P_export ==
    <<"/","v","1","/","e","x","p","o","r","t">>
P_query ==
    <<"/","v","1","/","q","u","e","r","y">>
P_stats ==
    <<"/","v","1","/","s","t","a","t","s">>
P_games ==
    <<"/","v","1","/","g","a","m","e","s">>
P_games_id ==
    <<"/","v","1","/","g","a","m","e","s","/","{","i","d","}">>
P_games_id_notes ==
    <<"/","v","1","/","g","a","m","e","s","/","{","i","d","}","/","n","o","t","e","s">>
P_games_id_sync ==
    <<"/","v","1","/","g","a","m","e","s","/","{","i","d","}","/","s","y","n","c">>
P_games_id_history ==
    <<"/","v","1","/","g","a","m","e","s","/","{","i","d","}","/","h","i","s","t","o","r","y">>
P_plays ==
    <<"/","v","1","/","p","l","a","y","s">>
P_plays_id ==
    <<"/","v","1","/","p","l","a","y","s","/","{","i","d","}">>
P_stats_winners ==
    <<"/","v","1","/","s","t","a","t","s","/","w","i","n","n","e","r","s">>
P_stats_totals ==
    <<"/","v","1","/","s","t","a","t","s","/","t","o","t","a","l","s">>
P_stats_last_played ==
    <<"/","v","1","/","s","t","a","t","s","/","l","a","s","t","-","p","l","a","y","e","d">>
P_stats_recent ==
    <<"/","v","1","/","s","t","a","t","s","/","r","e","c","e","n","t">>
P_stats_players_player ==
    <<"/","v","1","/","s","t","a","t","s","/","p","l","a","y","e","r","s","/","{","p","l","a","y","e","r","}">>
P_stats_games ==
    <<"/","v","1","/","s","t","a","t","s","/","g","a","m","e","s">>
Q_games_1 ==
    <<"/","v","1","/","g","a","m","e","s","/","1">>
Q_games_slash ==
    <<"/","v","1","/","g","a","m","e","s","/">>
Q_games_1_notes ==
    <<"/","v","1","/","g","a","m","e","s","/","1","/","n","o","t","e","s">>
Q_games_1_sync ==
    <<"/","v","1","/","g","a","m","e","s","/","1","/","s","y","n","c">>
Q_games_1_history ==
    <<"/","v","1","/","g","a","m","e","s","/","1","/","h","i","s","t","o","r","y">>
Q_games_9 ==
    <<"/","v","1","/","g","a","m","e","s","/","9">>
Q_plays_1 ==
    <<"/","v","1","/","p","l","a","y","s","/","1">>
Q_plays_x ==
    <<"/","v","1","/","p","l","a","y","s","/","x">>
Q_stats_players_Trish ==
    <<"/","v","1","/","s","t","a","t","s","/","p","l","a","y","e","r","s","/","T","r","i","s","h">>
Q_unknown ==
    <<"/","v","1","/","u","n","k","n","o","w","n">>
Q_export_slash ==
    <<"/","v","1","/","e","x","p","o","r","t","/">>
K_admin ==
    <<"a","d","m","i","n","-","k","e","y","-","2","4">>
K_user ==
    <<"u","k">>
K_UK ==
    <<"U","K">>
K_ro ==
    <<"r","k">>
K_ro2 ==
    <<"r","o","2">>
KL_main ==
    <<"a","d","m","i","n","-","k","e","y","-","2","4",":","A","D","M","I","N",","," ","u","k",":","u","s","e","r",",","r","k",":","r","e","a","d","-","o","n","l","y"," ",",","r","o","2",":","r","e","a","d","o","n","l","y">>
KL_messy ==
    <<"u","k",":","a","d","m","i","n",",","u","k",":","u","s","e","r",",","b","a","d",",","o","d","d",":","r","o","o","t",",","r","k",":","R","e","a","d","-","O","n","l","y">>
RA_False ==
    <<"F","a","l","s","E">>
RA_true ==
    <<"t","r","u","e">>
RA_zero ==
    <<"0">>
H_Bearer_admin ==
    <<"B","e","a","r","e","r"," ","a","d","m","i","n","-","k","e","y","-","2","4">>
H_Bearer_user ==
    <<"B","e","a","r","e","r"," ","u","k">>
H_Bearer_ro ==
    <<"B","e","a","r","e","r"," ","r","k">>
H_Bearer_bad ==
    <<"B","e","a","r","e","r"," ","b","a","d">>
H_Bearer_odd ==
    <<"B","e","a","r","e","r"," ","o","d","d">>
H_Bearer_nope ==
    <<"B","e","a","r","e","r"," ","n","o","p","e">>
H_bearer_lc ==
    <<"b","e","a","r","e","r"," ","u","k">>
H_Bearer_only ==
    <<"B","e","a","r","e","r">>

(* JavaScript's undefined and null: values that are no string. *)
Undefined ==
    <<"#undefined">>
Null ==
    <<"#null">>
PERM_read ==
    <<"r","e","a","d">>
PERM_write ==
    <<"w","r","i","t","e">>
PERM_delete ==
    <<"d","e","l","e","t","e">>
PERM_export ==
    <<"e","x","p","o","r","t">>
PERM_query ==
    <<"q","u","e","r","y">>
S_star ==
    <<"*">>
S_ellipsis ==
    <<".",".",".">>
S_dev_mode ==
    <<"d","e","v","-","m","o","d","e">>
HV_methods ==
    <<"G","E","T",","," ","P","O","S","T",","," ","P","U","T",","," ","P","A","T","C","H",","," ","D","E","L","E","T","E",","," ","O","P","T","I","O","N","S">>
HV_headers ==
    <<"C","o","n","t","e","n","t","-","T","y","p","e",","," ","A","u","t","h","o","r","i","z","a","t","i","o","n",","," ","X","-","A","P","I","-","K","e","y">>
HV_headers_delete ==
    <<"C","o","n","t","e","n","t","-","T","y","p","e",","," ","A","u","t","h","o","r","i","z","a","t","i","o","n">>
HV_json ==
    <<"a","p","p","l","i","c","a","t","i","o","n","/","j","s","o","n">>
HV_max_age ==
    <<"8","6","4","0","0">>
HV_attachment ==
    <<"a","t","t","a","c","h","m","e","n","t",";"," ","f","i","l","e","n","a","m","e","=","\"","e","u","r","o","g","a","m","e","s","-","e","x","p","o","r","t",".","j","s","o","n","\"">>
MSG_missing_key ==
    <<"A","P","I"," ","k","e","y"," ","i","s"," ","r","e","q","u","i","r","e","d","."," ","P","r","o","v","i","d","e"," ","i","t"," ","v","i","a"," ","A","u","t","h","o","r","i","z","a","t","i","o","n",":"," ","B","e","a","r","e","r"," ","<","k","e","y",">"," ","o","r"," ","X","-","A","P","I","-","K","e","y"," ","h","e","a","d","e","r",".">>
MSG_invalid_key ==
    <<"I","n","v","a","l","i","d"," ","A","P","I"," ","k","e","y"," ","p","r","o","v","i","d","e","d",".">>
MSG_requires ==
    <<"T","h","i","s"," ","o","p","e","r","a","t","i","o","n"," ","r","e","q","u","i","r","e","s"," ","'">>
MSG_permission ==
    <<"'"," ","p","e","r","m","i","s","s","i","o","n",".">>
MSG_internal ==
    <<"A","n"," ","i","n","t","e","r","n","a","l"," ","s","e","r","v","e","r"," ","e","r","r","o","r"," ","o","c","c","u","r","r","e","d">>
MSG_route ==
    <<"R","o","u","t","e"," ">>
MSG_space ==
    <<" ">>
MSG_not_found ==
    <<" ","n","o","t"," ","f","o","u","n","d">>
MSG_export_failed ==
    <<"F","a","i","l","e","d"," ","t","o"," ","e","x","p","o","r","t"," ","d","a","t","a">>
MSG_unsupported_format ==
    <<"O","n","l","y"," ","J","S","O","N"," ","f","o","r","m","a","t"," ","i","s"," ","c","u","r","r","e","n","t","l","y"," ","s","u","p","p","o","r","t","e","d">>
MSG_sql_required ==
    <<"S","Q","L"," ","q","u","e","r","y"," ","i","s"," ","r","e","q","u","i","r","e","d">>
MSG_only_select ==
    <<"O","n","l","y"," ","S","E","L","E","C","T"," ","q","u","e","r","i","e","s"," ","a","r","e"," ","a","l","l","o","w","e","d">>
MSG_invalid_json ==
    <<"I","n","v","a","l","i","d"," ","J","S","O","N"," ","i","n"," ","r","e","q","u","e","s","t"," ","b","o","d","y">>
MSG_query_failed ==
    <<"F","a","i","l","e","d"," ","t","o"," ","e","x","e","c","u","t","e"," ","q","u","e","r","y",":"," ">>
MSG_table_not_found ==
    <<"D","a","t","a","b","a","s","e"," ","t","a","b","l","e"," ","n","o","t"," ","f","o","u","n","d","."," ","P","l","e","a","s","e"," ","e","n","s","u","r","e"," ","t","h","e"," ","d","a","t","a","b","a","s","e"," ","i","s"," ","p","r","o","p","e","r","l","y"," ","m","i","g","r","a","t","e","d",".">>
MSG_duplicate ==
    <<"A"," ","r","e","c","o","r","d"," ","w","i","t","h"," ","t","h","i","s"," ","I","D"," ","a","l","r","e","a","d","y"," ","e","x","i","s","t","s",".">>
MSG_database ==
    <<"A","n"," ","e","r","r","o","r"," ","o","c","c","u","r","r","e","d"," ","w","h","i","l","e"," ","a","c","c","e","s","s","i","n","g"," ","t","h","e"," ","d","a","t","a","b","a","s","e",".">>
S_no_such_table ==
    <<"n","o"," ","s","u","c","h"," ","t","a","b","l","e">>
S_unique ==
    <<"U","N","I","Q","U","E"," ","c","o","n","s","t","r","a","i","n","t"," ","f","a","i","l","e","d">>
S_undefined ==
    <<"u","n","d","e","f","i","n","e","d">>

(***************************************************************************)
(* JavaScript string operations on character sequences.                    *)
(***************************************************************************)
IsNullish(s) ==
    s = Undefined \/ s = Null

(* Truthiness of a value of type string | null | undefined. *)
Truthy(s) ==
    ~IsNullish(s) /\ s # <<>>

UpperChars ==
    <<"A","B","C","D","E","F","G","H","I","J","K","L","M",
      "N","O","P","Q","R","S","T","U","V","W","X","Y","Z">>

LowerChars ==
    <<"a","b","c","d","e","f","g","h","i","j","k","l","m",
      "n","o","p","q","r","s","t","u","v","w","x","y","z">>

ToLowerChar(c) ==
    IF \E i \in DOMAIN UpperChars : UpperChars[i] = c
    THEN LowerChars[CHOOSE i \in DOMAIN UpperChars : UpperChars[i] = c]
    ELSE c

ToLowerCase(s) ==
    [i \in 1..Len(s) |-> ToLowerChar(s[i])]

StartsWith(s, p) ==
    Len(s) >= Len(p) /\ SubSeq(s, 1, Len(p)) = p

EndsWith(s, p) ==
    Len(s) >= Len(p) /\ SubSeq(s, Len(s) - Len(p) + 1, Len(s)) = p

Includes(s, sub) ==
    \E i \in 0..(Len(s) - Len(sub)) : SubSeq(s, i + 1, i + Len(sub)) = sub

(* s.slice(from) and s.slice(from, to), zero-based, from and to >= 0. *)
SliceFrom(s, from) ==
    SubSeq(s, from + 1, Len(s))

Slice(s, from, to) ==
    SubSeq(s, from + 1, IF to < Len(s) THEN to ELSE Len(s))

IsSpace(c) ==
    c \in {" ", "\t", "\n", "\r"}

RECURSIVE TrimStart(_)
TrimStart(s) ==
    IF s # <<>> /\ IsSpace(Head(s)) THEN TrimStart(Tail(s)) ELSE s

RECURSIVE TrimEnd(_)
TrimEnd(s) ==
    IF s # <<>> /\ IsSpace(s[Len(s)]) THEN TrimEnd(SubSeq(s, 1, Len(s) - 1)) ELSE s

Trim(s) ==
    TrimEnd(TrimStart(s))

(* s.split(sep) for a one-character separator: the pieces between the      *)
(* occurrences of sep, in order; "".split(sep) is [""].                     *)
Split(s, sep) ==
    LET at     == {i \in 1..Len(s) : s[i] = sep}
        pos(k) == CHOOSE p \in at : Cardinality({q \in at : q < p}) = k - 1
        n      == Cardinality(at)
    IN  [k \in 1..(n + 1) |->
            SubSeq(s, IF k = 1 THEN 1 ELSE pos(k - 1) + 1,
                      IF k = n + 1 THEN Len(s) ELSE pos(k) - 1)]

(* parts[i] of a JavaScript array, zero-based: undefined out of bounds. *)
At(parts, i) ==
    IF i + 1 <= Len(parts) THEN parts[i + 1] ELSE Undefined

MinOf(S) ==
    CHOOSE x \in S : \A y \in S : x <= y

MaxOf(S) ==
    CHOOSE x \in S : \A y \in S : x >= y

(***************************************************************************)
(* utils.ts: response envelope and CORS preflight.                         *)
(***************************************************************************)
(* A Response constructed with a null body. *)
NoBody ==
    <<>>

ErrorCode(r) ==
    IF "error" \in DOMAIN r.body THEN r.body.error.code ELSE ""

ErrorMessage(r) ==
    IF "error" \in DOMAIN r.body THEN r.body.error.message ELSE <<>>

corsHeaders ==
    ("Access-Control-Allow-Origin" :> S_star)
    @@ ("Access-Control-Allow-Methods" :> HV_methods)
    @@ ("Access-Control-Allow-Headers" :> HV_headers)
    @@ ("Content-Type" :> HV_json)

createResponse(data, status) ==
    [status |-> status, headers |-> corsHeaders, body |-> [data |-> data]]

createErrorResponse(code, message, status) ==
    [status  |-> status,
     headers |-> corsHeaders,
     body    |-> [error |-> [code |-> code, message |-> message]]]

createErrorResponseDetails(code, message, status, details) ==
    [status  |-> status,
     headers |-> corsHeaders,
     body    |-> [error |-> [code |-> code, message |-> message,
                             details |-> details]]]

createPaginatedResponse(data, total, limit, offset) ==
    [status  |-> 200,
     headers |-> corsHeaders,
     body    |-> [data |-> data,
                  meta |-> [total |-> total, limit |-> limit, offset |-> offset]]]

NoResponse ==
    [status |-> 0, headers |-> <<>>, body |-> NoBody]

handleCORS_skipped(request) ==
    NoResponse

(* handleCORS returns a Response for OPTIONS and null (NoResponse) otherwise. *)
handleCORS(request) ==
    IF request.method = M_OPTIONS
    THEN [status  |-> 200,
          headers |-> ("Access-Control-Allow-Origin" :> S_star)
                      @@ ("Access-Control-Allow-Methods" :> HV_methods)
                      @@ ("Access-Control-Allow-Headers" :> HV_headers)
                      @@ ("Access-Control-Max-Age" :> HV_max_age),
          body    |-> NoBody]
    ELSE NoResponse

(***************************************************************************)
(* middleware/auth.ts                                                      *)
(***************************************************************************)
AllPermissions ==
    {PERM_read, PERM_write, PERM_delete, PERM_export, PERM_query}

extractApiKey_apiKeyHeaderFirst(request) ==
    IF Truthy(request.xApiKey)
    THEN request.xApiKey
    ELSE IF ~IsNullish(request.authorization) /\ StartsWith(request.authorization, S_Bearer)
         THEN SliceFrom(request.authorization, Len(S_Bearer))
         ELSE Null

extractApiKey(request) ==
    IF ~IsNullish(request.authorization) /\ StartsWith(request.authorization, S_Bearer)
    THEN SliceFrom(request.authorization, Len(S_Bearer))
    ELSE IF Truthy(request.xApiKey)
         THEN request.xApiKey
         ELSE Null

getPermissionsForLevel_defaultRead(level) ==
    LET l == IF IsNullish(level) THEN Undefined ELSE ToLowerCase(level)
    IN  CASE l = L_admin                    -> AllPermissions
          [] l = L_user                     -> {PERM_read, PERM_write}
          [] OTHER                          -> {PERM_read}

getPermissionsForLevel_caseSensitive(level) ==
    CASE level = L_admin                    -> AllPermissions
      [] level = L_user                     -> {PERM_read, PERM_write}
      [] level \in {L_read_only, L_readonly} -> {PERM_read}
      [] OTHER                              -> {}

getPermissionsForLevel(level) ==
    LET l == IF IsNullish(level) THEN Undefined ELSE ToLowerCase(level)
    IN  CASE l = L_admin                    -> AllPermissions
          [] l = L_user                     -> {PERM_read, PERM_write}
          [] l \in {L_read_only, L_readonly} -> {PERM_read}
          [] OTHER                          -> {}

hasPermission(userPermissions, requiredPermission) ==
    requiredPermission \in userPermissions

InvalidKey ==
    [valid |-> FALSE, permissions |-> {}, keyId |-> Undefined]

validateApiKey_lastMatch(key, e) ==
    IF ~Truthy(e.API_KEYS)
    THEN InvalidKey
    ELSE LET apiKeys == Split(e.API_KEYS, ",")
             hits    == {i \in 1..Len(apiKeys) :
                            At(Split(Trim(apiKeys[i]), ":"), 0) = key}
         IN  IF hits = {}
             THEN InvalidKey
             ELSE LET parts == Split(Trim(apiKeys[MaxOf(hits)]), ":")
                  IN  [valid       |-> TRUE,
                       permissions |-> getPermissionsForLevel(At(parts, 1)),
                       keyId       |-> Slice(At(parts, 0), 0, 8) \o S_ellipsis]

(* The for loop returns at the first entry whose keyValue equals the key. *)
validateApiKey(key, e) ==
    IF ~Truthy(e.API_KEYS)
    THEN InvalidKey
    ELSE LET apiKeys == Split(e.API_KEYS, ",")
             hits    == {i \in 1..Len(apiKeys) :
                            At(Split(Trim(apiKeys[i]), ":"), 0) = key}
         IN  IF hits = {}
             THEN InvalidKey
             ELSE LET parts == Split(Trim(apiKeys[MinOf(hits)]), ":")
                  IN  [valid       |-> TRUE,
                       permissions |-> getPermissionsForLevel(At(parts, 1)),
                       keyId       |-> Slice(At(parts, 0), 0, 8) \o S_ellipsis]

getRequiredPermission_exportAsRead(method, pathname) ==
    IF method = M_GET THEN PERM_read
    ELSE IF method = M_POST
         THEN IF pathname = P_query THEN PERM_query ELSE PERM_write
    ELSE IF method = M_PUT \/ method = M_PATCH THEN PERM_write
    ELSE IF method = M_DELETE THEN PERM_delete
    ELSE PERM_read

getRequiredPermission_deleteAsRead(method, pathname) ==
    IF method = M_GET
    THEN IF pathname = P_export THEN PERM_export ELSE PERM_read
    ELSE IF method = M_POST
         THEN IF pathname = P_query THEN PERM_query ELSE PERM_write
    ELSE IF method = M_PUT \/ method = M_PATCH THEN PERM_write
    ELSE PERM_read

getRequiredPermission_postAsWrite(method, pathname) ==
    IF method = M_GET
    THEN IF pathname = P_export THEN PERM_export ELSE PERM_read
    ELSE IF method = M_POST \/ method = M_PUT \/ method = M_PATCH THEN PERM_write
    ELSE IF method = M_DELETE THEN PERM_delete
    ELSE PERM_read

getRequiredPermission(method, pathname) ==
    IF method = M_GET
    THEN IF pathname = P_export THEN PERM_export ELSE PERM_read
    ELSE IF method = M_POST
         THEN IF pathname = P_query THEN PERM_query
              ELSE IF StartsWith(pathname, P_games) THEN PERM_write
              ELSE IF StartsWith(pathname, P_plays) THEN PERM_write
              ELSE PERM_write
    ELSE IF method = M_PUT \/ method = M_PATCH THEN PERM_write
    ELSE IF method = M_DELETE THEN PERM_delete
    ELSE PERM_read

publicRoutes ==
    << [method |-> M_GET,     path |-> P_root],
       [method |-> M_GET,     path |-> <<>>],
       [method |-> M_OPTIONS, path |-> S_star] >>

isPublicRoute_prefixMatch(method, pathname) ==
    \E i \in DOMAIN publicRoutes :
        /\ publicRoutes[i].method = method
        /\ (publicRoutes[i].path = S_star \/ StartsWith(pathname, publicRoutes[i].path))

isPublicRoute(method, pathname) ==
    \E i \in DOMAIN publicRoutes :
        /\ publicRoutes[i].method = method
        /\ (publicRoutes[i].path = S_star \/ publicRoutes[i].path = pathname)

NoContext ==
    [authenticated |-> FALSE, permissions |-> {}, keyId |-> Undefined]

(* The dev-mode test of authenticateRequest. *)
authRequired_caseSensitive(e) ==
    ~(~Truthy(e.REQUIRE_AUTH) \/ e.REQUIRE_AUTH = S_false)

authRequired(e) ==
    ~(~Truthy(e.REQUIRE_AUTH) \/ ToLowerCase(e.REQUIRE_AUTH) = S_false)

(* authenticateRequest: outcome names the branch taken; context is the       *)
(* AuthContext returned, response the error Response returned instead.       *)
authenticateRequest(request, e) ==
    LET method   == request.method
        pathname == request.pathname
        apiKey   == extractApiKey(request)
        result   == validateApiKey(apiKey, e)
        required == getRequiredPermission(method, pathname)
    IN  IF isPublicRoute(method, pathname)
        THEN [outcome  |-> "PublicAllowed",
              context  |-> NoContext,
              response |-> NoResponse]
        ELSE IF ~authRequired(e)
        THEN [outcome  |-> "DevModeAllowed",
              context  |-> [authenticated |-> TRUE,
                            permissions   |-> AllPermissions,
                            keyId         |-> S_dev_mode],
              response |-> NoResponse]
        ELSE IF ~Truthy(apiKey)
        THEN [outcome  |-> "KeyMissing",
              context  |-> NoContext,
              response |-> createErrorResponse("MISSING_API_KEY", MSG_missing_key, 401)]
        ELSE IF ~result.valid
        THEN [outcome  |-> "KeyInvalid",
              context  |-> NoContext,
              response |-> createErrorResponse("INVALID_API_KEY", MSG_invalid_key, 401)]
        ELSE IF ~hasPermission(result.permissions, required)
        THEN [outcome  |-> "InsufficientPermission",
              context  |-> NoContext,
              response |-> createErrorResponse("INSUFFICIENT_PERMISSIONS",
                              MSG_requires \o required \o MSG_permission, 403)]
        ELSE [outcome  |-> "Authorized",
              context  |-> [authenticated |-> TRUE,
                            permissions   |-> result.permissions,
                            keyId         |-> result.keyId],
              response |-> NoResponse]
MSG_invalid_game_id ==
    <<"I","n","v","a","l","i","d"," ","g","a","m","e"," ","I","D"," ","p","r","o","v","i","d","e","d">>
MSG_game_not_found ==
    <<"G","a","m","e"," ","n","o","t"," ","f","o","u","n","d">>
MSG_invalid_bgg_id ==
    <<"V","a","l","i","d"," ","B","G","G"," ","I","D"," ","i","s"," ","r","e","q","u","i","r","e","d">>
MSG_game_exists ==
    <<"G","a","m","e"," ","a","l","r","e","a","d","y"," ","e","x","i","s","t","s"," ","i","n"," ","d","a","t","a","b","a","s","e">>
MSG_bgg_sync ==
    <<"B","G","G"," ","s","y","n","c"," ","f","u","n","c","t","i","o","n","a","l","i","t","y"," ","n","o","t"," ","y","e","t"," ","i","m","p","l","e","m","e","n","t","e","d","."," ","U","s","e"," ","e","x","i","s","t","i","n","g"," ","s","y","n","c"," ","s","c","r","i","p","t","s",".">>
MSG_invalid_status ==
    <<"S","t","a","t","u","s"," ","m","u","s","t"," ","b","e"," ","o","n","e"," ","o","f",":"," ","P","l","a","y","i","n","g",","," ","I","n","b","o","x",","," ","C","o","m","p","l","e","t","e","d",","," ","S","o","l","d",","," ","W","i","s","h","l","i","s","t","e","d">>
MSG_no_updates ==
    <<"N","o"," ","v","a","l","i","d"," ","f","i","e","l","d","s"," ","t","o"," ","u","p","d","a","t","e">>
MSG_missing_player ==
    <<"P","l","a","y","e","r"," ","n","a","m","e"," ","i","s"," ","r","e","q","u","i","r","e","d">>
MSG_invalid_player ==
    <<"P","l","a","y","e","r"," ","m","u","s","t"," ","b","e"," ","o","n","e"," ","o","f",":"," ","A","n","d","r","e","w",","," ","T","r","i","s","h">>
MSG_invalid_play_id ==
    <<"I","n","v","a","l","i","d"," ","p","l","a","y"," ","I","D"," ","p","r","o","v","i","d","e","d">>
MSG_play_not_found ==
    <<"P","l","a","y"," ","r","e","c","o","r","d"," ","n","o","t"," ","f","o","u","n","d">>
MSG_missing_game_id ==
    <<"G","a","m","e"," ","I","D"," ","i","s"," ","r","e","q","u","i","r","e","d">>
MSG_missing_winner ==
    <<"W","i","n","n","e","r"," ","i","s"," ","r","e","q","u","i","r","e","d">>
MSG_invalid_winner ==
    <<"W","i","n","n","e","r"," ","m","u","s","t"," ","b","e"," ","o","n","e"," ","o","f",":"," ","A","n","d","r","e","w",","," ","T","r","i","s","h",","," ","D","r","a","w">>
EM_no_such_table ==
    <<"D","1","_","E","R","R","O","R",":"," ","n","o"," ","s","u","c","h"," ","t","a","b","l","e",":"," ","l","o","g">>
EM_unique ==
    <<"D","1","_","E","R","R","O","R",":"," ","U","N","I","Q","U","E"," ","c","o","n","s","t","r","a","i","n","t"," ","f","a","i","l","e","d",":"," ","n","o","t","e","s",".","i","d">>
EM_network ==
    <<"D","1","_","E","R","R","O","R",":"," ","N","e","t","w","o","r","k"," ","c","o","n","n","e","c","t","i","o","n"," ","l","o","s","t",".">>
EM_destructure ==
    <<"C","a","n","n","o","t"," ","d","e","s","t","r","u","c","t","u","r","e"," ","p","r","o","p","e","r","t","y"," ","o","f"," ","n","u","l","l">>
EM_json ==
    <<"U","n","e","x","p","e","c","t","e","d"," ","e","n","d"," ","o","f"," ","J","S","O","N"," ","i","n","p","u","t">>
Digits ==
    <<"0","1","2","3","4","5","6","7","8","9">>
S_Andrew ==
    <<"A","n","d","r","e","w">>
S_Trish ==
    <<"T","r","i","s","h">>
S_Draw ==
    <<"D","r","a","w">>
S_json ==
    <<"j","s","o","n">>
S_csv ==
    <<"c","s","v">>
SQL_select ==
    <<"S","E","L","E","C","T"," ","*"," ","F","R","O","M"," ","l","o","g">>
SQL_select_padded ==
    <<" "," ","s","e","l","e","c","t"," ","1">>
SQL_delete ==
    <<"D","E","L","E","T","E"," ","F","R","O","M"," ","l","o","g">>
SQL_drop ==
    <<"D","r","o","p"," ","t","a","b","l","e"," ","l","o","g">>
SQL_update ==
    <<"u","p","d","a","t","e"," ","l","o","g"," ","s","e","t"," ","w","i","n","n","e","r"," ","="," ","'","D","r","a","w","'">>
SQL_insert ==
    <<"I","N","S","E","R","T"," ","I","N","T","O"," ","l","o","g"," ","(","i","d",")"," ","V","A","L","U","E","S"," ","(","1",")">>
SQL_pragma ==
    <<"S","E","L","E","C","T"," ","1",";"," ","P","R","A","G","M","A"," ","t","a","b","l","e","_","i","n","f","o","(","l","o","g",")">>
SQL_replace ==
    <<"R","E","P","L","A","C","E"," ","I","N","T","O"," ","l","o","g"," ","(","r","o","w","i","d",","," ","i","d",","," ","w","i","n","n","e","r",")"," ","V","A","L","U","E","S"," ","(","1",","," ","1",","," ","'","D","r","a","w","'",")">>
SQL_with_delete ==
    <<"W","I","T","H"," ","t"," ","A","S"," ","(","S","E","L","E","C","T"," ","1",")"," ","D","E","L","E","T","E"," ","F","R","O","M"," ","l","o","g">>

(***************************************************************************)
(* utils.ts: path matcher, number parsing, validation, database errors.    *)
(***************************************************************************)
IsPlaceholder(part) ==
    StartsWith(part, <<"{">>) /\ EndsWith(part, <<"}">>)

matchesPattern_extraSegments(pathname, pattern) ==
    LET patternParts == Split(pattern, "/")
        pathParts    == Split(pathname, "/")
    IN  /\ Len(patternParts) <= Len(pathParts)
        /\ \A i \in 1..Len(patternParts) :
              IsPlaceholder(patternParts[i]) \/ patternParts[i] = pathParts[i]

matchesPattern(pathname, pattern) ==
    LET patternParts == Split(pattern, "/")
        pathParts    == Split(pathname, "/")
    IN  /\ Len(patternParts) = Len(pathParts)
        /\ \A i \in 1..Len(patternParts) :
              IsPlaceholder(patternParts[i]) \/ patternParts[i] = pathParts[i]

extractPathParams_bracedNames(pathname, pattern) ==
    LET patternParts == Split(pattern, "/")
        pathParts    == Split(pathname, "/")
        holders      == {i \in 1..Len(patternParts) : IsPlaceholder(patternParts[i])}
        names        == {patternParts[i] : i \in holders}
    IN  [n \in names |->
            At(pathParts, MaxOf({i \in holders : patternParts[i] = n}) - 1)]

(* params[name] = pathParts[i] for every placeholder, later ones overriding. *)
extractPathParams(pathname, pattern) ==
    LET patternParts == Split(pattern, "/")
        pathParts    == Split(pathname, "/")
        holders      == {i \in 1..Len(patternParts) : IsPlaceholder(patternParts[i])}
        NameOf(i)    == Slice(patternParts[i], 1, Len(patternParts[i]) - 1)
        names        == {NameOf(i) : i \in holders}
    IN  [n \in names |->
            At(pathParts, MaxOf({i \in holders : NameOf(i) = n}) - 1)]

(* params?.name || '' *)
ParamOrEmpty(params, name) ==
    IF name \in DOMAIN params /\ Truthy(params[name]) THEN params[name] ELSE <<>>

NaN ==
    [isNaN |-> TRUE, value |-> 0]

Num(n) ==
    [isNaN |-> FALSE, value |-> n]

IsDigit(c) ==
    \E i \in DOMAIN Digits : Digits[i] = c

DigitVal(c) ==
    (CHOOSE i \in DOMAIN Digits : Digits[i] = c) - 1

RECURSIVE DigitsValue(_)
DigitsValue(s) ==
    IF s = <<>> THEN 0
    ELSE 10 * DigitsValue(SubSeq(s, 1, Len(s) - 1)) + DigitVal(s[Len(s)])

(* parseInt(s, 10): leading whitespace, an optional sign, the digit prefix. *)
parseInt(s) ==
    LET t      == TrimStart(s)
        signed == t # <<>> /\ t[1] \in {"+", "-"}
        u      == IF signed THEN Tail(t) ELSE t
        n      == MaxOf({k \in 0..Len(u) : \A i \in 1..k : IsDigit(u[i])})
        v      == DigitsValue(SubSeq(u, 1, n))
    IN  IF n = 0 THEN NaN
        ELSE IF signed /\ t[1] = "-" THEN Num(0 - v) ELSE Num(v)

RECURSIVE NumberToString(_)
NumberToString(n) ==
    IF n < 0 THEN <<"-">> \o NumberToString(0 - n)
    ELSE IF n < 10 THEN <<Digits[n + 1]>>
    ELSE NumberToString(n \div 10) \o <<Digits[(n % 10) + 1]>>

(* validateGameId: the number, or null (modelled by NaN) when not positive. *)
validateGameId(id) ==
    LET gameId == parseInt(id)
    IN  IF gameId.isNaN \/ gameId.value <= 0 THEN NaN ELSE gameId

validStatuses ==
    {"Playing", "Inbox", "Completed", "Sold", "Wishlisted"}

validateGameStatus(status) ==
    status \in validStatuses

(* Values a rejected promise or a throw can carry. *)
NoFailure ==
    [kind |-> "none", message |-> Null]

JsonSyntaxError ==
    [kind |-> "SyntaxError", message |-> EM_json]

NullBodyTypeError ==
    [kind |-> "TypeError", message |-> EM_destructure]

DbFailures ==
    { [kind |-> "Error", message |-> EM_no_such_table],
      [kind |-> "Error", message |-> EM_unique],
      [kind |-> "Error", message |-> EM_network],
      [kind |-> "value", message |-> Undefined] }

handleDatabaseError(error, operation) ==
    IF Includes(error.message, S_no_such_table)
    THEN createErrorResponse("DATABASE_TABLE_NOT_FOUND", MSG_table_not_found, 500)
    ELSE IF Includes(error.message, S_unique)
    THEN createErrorResponse("DUPLICATE_RECORD", MSG_duplicate, 409)
    ELSE createErrorResponseDetails("DATABASE_ERROR", MSG_database, 500,
                                    [operation |-> operation])

(***************************************************************************)
(* Handler outcomes: the Response returned (or threw = TRUE when the       *)
(* handler's promise rejects), the store afterwards, the number of         *)
(* statements issued and the failure raised while handling, if any.        *)
(***************************************************************************)
Returned(r, d, n) ==
    [response |-> r, db |-> d, queries |-> n, failure |-> NoFailure, threw |-> FALSE]

(* catch (error) { return handleDatabaseError(error, op) }: reading          *)
(* error.message.includes of a thrown non-Error value throws in turn.        *)
Caught(op, error, d, n) ==
    IF IsNullish(error.message)
    THEN [response |-> NoResponse, db |-> d, queries |-> n,
          failure |-> error, threw |-> TRUE]
    ELSE [response |-> handleDatabaseError(error, op), db |-> d, queries |-> n,
          failure |-> error, threw |-> FALSE]

(* catch with the SyntaxError test of the handlers that read a JSON body. *)
CaughtJson(op, error, d, n) ==
    IF error.kind = "SyntaxError"
    THEN [response |-> createErrorResponse("INVALID_JSON", MSG_invalid_json, 400),
          db |-> d, queries |-> n, failure |-> error, threw |-> FALSE]
    ELSE Caught(op, error, d, n)

(* A statement of the await stage reached after n statements fails. *)
DbFails(op, d, counts) ==
    {Caught(op, f, d, n) : f \in DbFailures, n \in counts}

(***************************************************************************)
(* The D1 store: bgg (games, never written by the API), notes and log.     *)
(***************************************************************************)
MaxPlayId ==
    1

PlayIds ==
    1..MaxPlayId

GameIds ==
    {1}

NoRow ==
    [gameId |-> 0, winner |-> <<>>]

NoNotes ==
    "#absent"

LogRow(d, id) ==
    IF id \in PlayIds THEN d.log[id] ELSE NoRow

PlayExists(d, id) ==
    LogRow(d, id) # NoRow

NotesRow(d, id) ==
    IF id \in GameIds THEN d.notes[id] ELSE NoNotes

(* rowid of the next INSERT INTO log: one past the largest rowid in use. *)
NextRowId(d) ==
    IF \E i \in PlayIds : d.log[i] # NoRow
    THEN MaxOf({i \in PlayIds : d.log[i] # NoRow}) + 1
    ELSE 1

(***************************************************************************)
(* JSON request bodies: invalid JSON, null, or an object with some fields. *)
(***************************************************************************)
Obj(f) ==
    [json |-> "object", fields |-> f]

InvalidJson ==
    [json |-> "invalid", fields |-> <<>>]

JsonNull ==
    [json |-> "null", fields |-> <<>>]

Has(b, k) ==
    k \in DOMAIN b.fields

Bodies ==
    { InvalidJson, JsonNull, Obj(<<>>),
      Obj(("game_id" :> 1) @@ ("winner" :> S_Andrew)),
      Obj(("game_id" :> 9) @@ ("winner" :> S_Andrew)),
      Obj(("game_id" :> 1) @@ ("winner" :> <<"B","o","b">>)),
      Obj(("game_id" :> 0) @@ ("winner" :> S_Andrew)),
      Obj("game_id" :> 1),
      Obj("winner" :> S_Draw),
      Obj("status" :> "Playing"),
      Obj("status" :> "Bogus"),
      Obj("bgg_id" :> 1),
      Obj("bgg_id" :> 5) }

(* await request.json() and the destructuring of its result. *)
BodyError(b) ==
    IF b.json = "invalid" THEN JsonSyntaxError
    ELSE IF b.json = "null" THEN NullBodyTypeError
    ELSE NoFailure

validPlayers ==
    {S_Andrew, S_Trish, S_Draw}

(***************************************************************************)
(* Query strings of the list endpoints: what url.searchParams.get returns  *)
(* for limit and offset (null when the parameter is missing).              *)
(***************************************************************************)
QueryStrings ==
    { [limit |-> Null,                offset |-> Null],
      [limit |-> <<>>,                offset |-> <<>>],
      [limit |-> <<"0">>,             offset |-> <<"3">>],
      [limit |-> <<"2","5">>,         offset |-> <<"0">>],
      [limit |-> <<"-","5">>,         offset |-> <<"-","1">>],
      [limit |-> <<"6","0","0">>,     offset |-> <<"3">>],
      [limit |-> <<"a","b","c">>,     offset |-> <<"x">>] }

(* parseQueryParams: limit and offset are kept when they parse to a number *)
(* that is not negative; a parameter that is not kept is undefined, which  *)
(* NaN stands for (parseQueryParams never stores NaN).                     *)
parseQueryParams(q) ==
    LET Kept(value) ==
            IF value = Null
            THEN NaN
            ELSE LET num == parseInt(value)
                 IN  IF ~num.isNaN /\ num.value >= 0 THEN num ELSE NaN
    IN  [limit |-> Kept(q.limit), offset |-> Kept(q.offset)]

(* x || d on a number or undefined: d when x is undefined, NaN or 0. *)
NumberOr(x, d) ==
    IF x.isNaN \/ x.value = 0 THEN Num(d) ELSE x

(* s || d on a string or null: d when s is null or empty. *)
StringOr(s, d) ==
    IF Truthy(s) THEN s ELSE d

(* Math.min(x, n): NaN when x is NaN. *)
MathMin(x, n) ==
    IF x.isNaN THEN NaN ELSE Num(IF x.value < n THEN x.value ELSE n)

(* Math.min(params.limit || d, 500) and params.offset || 0 *)
ParsedPage(q, d) ==
    [limit  |-> MathMin(NumberOr(parseQueryParams(q).limit, d), 500),
     offset |-> NumberOr(parseQueryParams(q).offset, 0)]

(* Math.min(parseInt(get('limit') || d), 500) and parseInt(get('offset') || '0') *)
RawPage(q, d) ==
    [limit  |-> MathMin(parseInt(StringOr(q.limit, d)), 500),
     offset |-> parseInt(StringOr(q.offset, <<"0">>))]

(* The list statement bound to page.limit and page.offset, and its answer. *)
ListOutcomes(op, page, d, n) ==
    {Returned(createPaginatedResponse(<<>>, 0, page.limit, page.offset), d, n)}
    \cup DbFails(op, d, {n})

(***************************************************************************)
(* handlers/games.ts                                                       *)
(***************************************************************************)
getGames(request, params, d) ==
    UNION {ListOutcomes("getGames", ParsedPage(q, 100), d, 2) : q \in QueryStrings}

getGameById(request, params, d) ==
    LET gameId == validateGameId(ParamOrEmpty(params, <<"i","d">>))
    IN  IF gameId.isNaN
        THEN {Returned(createErrorResponse("INVALID_GAME_ID", MSG_invalid_game_id, 400), d, 0)}
        ELSE DbFails("getGameById", d, {3}) \cup
             { IF gameId.value \in d.bgg
               THEN Returned(createResponse(
                        [id |-> gameId.value, notes |-> NotesRow(d, gameId.value)], 200), d, 3)
               ELSE Returned(createErrorResponse("GAME_NOT_FOUND", MSG_game_not_found, 404), d, 3) }

addGameWith(b, d) ==
    IF BodyError(b) # NoFailure
    THEN {CaughtJson("addGame", BodyError(b), d, 0)}
    ELSE IF \/ ~Has(b, "bgg_id")
            \/ b.fields["bgg_id"] = 0
            \/ validateGameId(NumberToString(b.fields["bgg_id"])).isNaN
    THEN {Returned(createErrorResponse("INVALID_BGG_ID", MSG_invalid_bgg_id, 400), d, 0)}
    ELSE DbFails("addGame", d, {1}) \cup
         { IF b.fields["bgg_id"] \in d.bgg
           THEN Returned(createErrorResponse("GAME_EXISTS", MSG_game_exists, 409), d, 1)
           ELSE Returned(createErrorResponse("BGG_SYNC_NOT_IMPLEMENTED", MSG_bgg_sync, 501), d, 1) }

addGame(request, params, d) ==
    UNION {addGameWith(b, d) : b \in Bodies}

updateGameNotesWith(b, params, d) ==
    LET gameId == validateGameId(ParamOrEmpty(params, <<"i","d">>))
        g      == gameId.value
        status == IF Has(b, "status") THEN b.fields["status"] ELSE "Inbox"
        after  == [d EXCEPT !.notes[g] = status]
        wrote  == DbFails("updateGameNotes", d, {3})
                  \cup DbFails("updateGameNotes", after, {4})
                  \cup {Returned(createResponse(NotesRow(after, g), 200), after, 4)}
    IN  IF gameId.isNaN
        THEN {Returned(createErrorResponse("INVALID_GAME_ID", MSG_invalid_game_id, 400), d, 0)}
        ELSE IF BodyError(b) # NoFailure
        THEN {CaughtJson("updateGameNotes", BodyError(b), d, 0)}
        ELSE IF Has(b, "status") /\ ~validateGameStatus(b.fields["status"])
        THEN {Returned(createErrorResponse("INVALID_STATUS", MSG_invalid_status, 400), d, 0)}
        ELSE DbFails("updateGameNotes", d, {1}) \cup
             ( IF g \notin d.bgg
               THEN {Returned(createErrorResponse("GAME_NOT_FOUND", MSG_game_not_found, 404), d, 1)}
               ELSE DbFails("updateGameNotes", d, {2}) \cup
                    ( IF NotesRow(d, g) # NoNotes /\ ~Has(b, "status")
                      THEN {Returned(createErrorResponse("NO_UPDATES", MSG_no_updates, 400), d, 2)}
                      ELSE wrote ) )

updateGameNotes(request, params, d) ==
    UNION {updateGameNotesWith(b, params, d) : b \in Bodies}

syncGameData(request, params, d) ==
    LET gameId == validateGameId(ParamOrEmpty(params, <<"i","d">>))
    IN  IF gameId.isNaN
        THEN {Returned(createErrorResponse("INVALID_GAME_ID", MSG_invalid_game_id, 400), d, 0)}
        ELSE DbFails("syncGameData", d, {1}) \cup
             { IF gameId.value \in d.bgg
               THEN Returned(createErrorResponse("BGG_SYNC_NOT_IMPLEMENTED", MSG_bgg_sync, 501), d, 1)
               ELSE Returned(createErrorResponse("GAME_NOT_FOUND", MSG_game_not_found, 404), d, 1) }

(***************************************************************************)
(* handlers/stats.ts                                                       *)
(***************************************************************************)
getWinnerStats(request, params, d) ==
    UNION {ListOutcomes("getWinnerStats", RawPage(q, <<"1","0","0">>), d, 2)
           : q \in QueryStrings}

getOverallTotals(request, params, d) ==
    {Returned(createResponse([totalGames |-> Cardinality({i \in PlayIds : PlayExists(d, i)})], 200), d, 1)}
    \cup DbFails("getOverallTotals", d, {1})

getLastPlayed(request, params, d) ==
    UNION {ListOutcomes("getLastPlayed", RawPage(q, <<"1","0","0">>), d, 2)
           : q \in QueryStrings}

getRecentPlays(request, params, d) ==
    UNION {ListOutcomes("getRecentPlays", RawPage(q, <<"1","5">>), d, 2)
           : q \in QueryStrings}

getPlayerStats(request, params, d) ==
    LET player == IF <<"p","l","a","y","e","r">> \in DOMAIN params
                  THEN params[<<"p","l","a","y","e","r">>] ELSE Undefined
    IN  IF ~Truthy(player)
        THEN {Returned(createErrorResponse("MISSING_PLAYER", MSG_missing_player, 400), d, 0)}
        ELSE IF player \notin {S_Andrew, S_Trish}
        THEN {Returned(createErrorResponse("INVALID_PLAYER", MSG_invalid_player, 400), d, 0)}
        ELSE {Returned(createResponse([player |-> player], 200), d, 4)}
             \cup DbFails("getPlayerStats", d, {4})

getGameStats(request, params, d) ==
    {Returned(createResponse([totalGames |-> Cardinality(d.bgg)], 200), d, 4)}
    \cup DbFails("getGameStats", d, {4})

(***************************************************************************)
(* handlers/plays.ts                                                       *)
(***************************************************************************)
getPlays(request, params, d) ==
    UNION {ListOutcomes("getPlays", ParsedPage(q, 15), d, 2) : q \in QueryStrings}

getPlayById(request, params, d) ==
    LET playId == validateGameId(ParamOrEmpty(params, <<"i","d">>))
    IN  IF playId.isNaN
        THEN {Returned(createErrorResponse("INVALID_PLAY_ID", MSG_invalid_play_id, 400), d, 0)}
        ELSE DbFails("getPlayById", d, {1}) \cup
             { IF PlayExists(d, playId.value)
               THEN Returned(createResponse(LogRow(d, playId.value), 200), d, 1)
               ELSE Returned(createErrorResponse("PLAY_NOT_FOUND", MSG_play_not_found, 404), d, 1) }

addPlayWith(b, d) ==
    LET gameId == validateGameId(NumberToString(b.fields["game_id"]))
        winner == b.fields["winner"]
        rowid  == NextRowId(d)
        row    == [gameId |-> gameId.value, winner |-> winner]
        after  == [d EXCEPT !.log[rowid] = row]
    IN  IF BodyError(b) # NoFailure
        THEN {CaughtJson("addPlay", BodyError(b), d, 0)}
        ELSE IF ~Has(b, "game_id") \/ b.fields["game_id"] = 0
        THEN {Returned(createErrorResponse("MISSING_GAME_ID", MSG_missing_game_id, 400), d, 0)}
        ELSE IF gameId.isNaN
        THEN {Returned(createErrorResponse("INVALID_GAME_ID", MSG_invalid_game_id, 400), d, 0)}
        ELSE IF ~Has(b, "winner") \/ ~Truthy(winner)
        THEN {Returned(createErrorResponse("MISSING_WINNER", MSG_missing_winner, 400), d, 0)}
        ELSE DbFails("addPlay", d, {1}) \cup
             ( IF gameId.value \notin d.bgg
               THEN {Returned(createErrorResponse("GAME_NOT_FOUND", MSG_game_not_found, 404), d, 1)}
               ELSE IF winner \notin validPlayers
               THEN {Returned(createErrorResponse("INVALID_WINNER", MSG_invalid_winner, 400), d, 1)}
               ELSE DbFails("addPlay", d, {2}) \cup
                    ( IF rowid \in PlayIds
                      THEN {Returned(createResponse([id |-> rowid, play |-> row], 201), after, 2)}
                      ELSE {} ) )

addPlay(request, params, d) ==
    UNION {addPlayWith(b, d) : b \in Bodies}

updatePlayWith(b, params, d) ==
    LET playId  == validateGameId(ParamOrEmpty(params, <<"i","d">>))
        p       == playId.value
        hasGame == Has(b, "game_id")
        gameId  == validateGameId(NumberToString(b.fields["game_id"]))
        hasWin  == Has(b, "winner")
        n       == IF hasGame THEN 2 ELSE 1
        old     == LogRow(d, p)
        row     == [gameId |-> IF hasGame THEN gameId.value ELSE old.gameId,
                    winner |-> IF hasWin THEN b.fields["winner"] ELSE old.winner]
        after   == [d EXCEPT !.log[p] = row]
        update  == IF hasWin /\ b.fields["winner"] \notin validPlayers
                   THEN {Returned(createErrorResponse("INVALID_WINNER", MSG_invalid_winner, 400), d, n)}
                   ELSE IF ~hasGame /\ ~hasWin
                   THEN {Returned(createErrorResponse("NO_UPDATES", MSG_no_updates, 400), d, n)}
                   ELSE DbFails("updatePlay", d, {n + 1})
                        \cup DbFails("updatePlay", after, {n + 2})
                        \cup {Returned(createResponse(LogRow(after, p), 200), after, n + 2)}
    IN  IF playId.isNaN
        THEN {Returned(createErrorResponse("INVALID_PLAY_ID", MSG_invalid_play_id, 400), d, 0)}
        ELSE IF BodyError(b) # NoFailure
        THEN {CaughtJson("updatePlay", BodyError(b), d, 0)}
        ELSE DbFails("updatePlay", d, {1}) \cup
             ( IF ~PlayExists(d, p)
               THEN {Returned(createErrorResponse("PLAY_NOT_FOUND", MSG_play_not_found, 404), d, 1)}
               ELSE IF hasGame /\ gameId.isNaN
               THEN {Returned(createErrorResponse("INVALID_GAME_ID", MSG_invalid_game_id, 400), d, 1)}
               ELSE IF hasGame
               THEN DbFails("updatePlay", d, {2}) \cup
                    ( IF gameId.value \notin d.bgg
                      THEN {Returned(createErrorResponse("GAME_NOT_FOUND", MSG_game_not_found, 404), d, 2)}
                      ELSE update )
               ELSE update )

updatePlay(request, params, d) ==
    UNION {updatePlayWith(b, params, d) : b \in Bodies}

deletePlay(request, params, d) ==
    LET playId == validateGameId(ParamOrEmpty(params, <<"i","d">>))
        p      == playId.value
        after  == [d EXCEPT !.log[p] = NoRow]
    IN  IF playId.isNaN
        THEN {Returned(createErrorResponse("INVALID_PLAY_ID", MSG_invalid_play_id, 400), d, 0)}
        ELSE DbFails("deletePlay", d, {1}) \cup
             ( IF ~PlayExists(d, p)
               THEN {Returned(createErrorResponse("PLAY_NOT_FOUND", MSG_play_not_found, 404), d, 1)}
               ELSE DbFails("deletePlay", d, {2}) \cup
                    { Returned([status  |-> 204,
                                headers |-> ("Access-Control-Allow-Origin" :> S_star)
                                            @@ ("Access-Control-Allow-Methods" :> HV_methods)
                                            @@ ("Access-Control-Allow-Headers" :> HV_headers_delete),
                                body    |-> NoBody], after, 2) } )

getGameHistory(request, params, d) ==
    LET gameId == validateGameId(ParamOrEmpty(params, <<"i","d">>))
    IN  IF gameId.isNaN
        THEN {Returned(createErrorResponse("INVALID_GAME_ID", MSG_invalid_game_id, 400), d, 0)}
        ELSE DbFails("getGameHistory", d, {1}) \cup
             ( IF gameId.value \notin d.bgg
               THEN {Returned(createErrorResponse("GAME_NOT_FOUND", MSG_game_not_found, 404), d, 1)}
               ELSE UNION {ListOutcomes("getGameHistory", RawPage(q, <<"5","0">>), d, 3)
                           : q \in QueryStrings} )

(***************************************************************************)
(* index.ts: route table, export, query and root handlers.                 *)
(***************************************************************************)
P_stats_any ==
    <<"/","v","1","/","s","t","a","t","s","/","{","n","a","m","e","}">>

(* The route table with a trailing entry that shadows the statistics routes. *)
routes_withShadowedStats ==
    << [method |-> M_GET,    pattern |-> P_games,                handler |-> "getGames"],
       [method |-> M_GET,    pattern |-> P_games_id,             handler |-> "getGameById"],
       [method |-> M_POST,   pattern |-> P_games,                handler |-> "addGame"],
       [method |-> M_PATCH,  pattern |-> P_games_id_notes,       handler |-> "updateGameNotes"],
       [method |-> M_PUT,    pattern |-> P_games_id_sync,        handler |-> "syncGameData"],
       [method |-> M_GET,    pattern |-> P_games_id_history,     handler |-> "getGameHistory"],
       [method |-> M_GET,    pattern |-> P_plays,                handler |-> "getPlays"],
       [method |-> M_GET,    pattern |-> P_plays_id,             handler |-> "getPlayById"],
       [method |-> M_POST,   pattern |-> P_plays,                handler |-> "addPlay"],
       [method |-> M_PUT,    pattern |-> P_plays_id,             handler |-> "updatePlay"],
       [method |-> M_DELETE, pattern |-> P_plays_id,             handler |-> "deletePlay"],
       [method |-> M_GET,    pattern |-> P_stats_winners,        handler |-> "getWinnerStats"],
       [method |-> M_GET,    pattern |-> P_stats_totals,         handler |-> "getOverallTotals"],
       [method |-> M_GET,    pattern |-> P_stats_last_played,    handler |-> "getLastPlayed"],
       [method |-> M_GET,    pattern |-> P_stats_recent,         handler |-> "getRecentPlays"],
       [method |-> M_GET,    pattern |-> P_stats_players_player, handler |-> "getPlayerStats"],
       [method |-> M_GET,    pattern |-> P_stats_games,          handler |-> "getGameStats"],
       [method |-> M_GET,    pattern |-> P_stats_any,            handler |-> "getGameStats"] >>

routes ==
    << [method |-> M_GET,    pattern |-> P_games,                handler |-> "getGames"],
       [method |-> M_GET,    pattern |-> P_games_id,             handler |-> "getGameById"],
       [method |-> M_POST,   pattern |-> P_games,                handler |-> "addGame"],
       [method |-> M_PATCH,  pattern |-> P_games_id_notes,       handler |-> "updateGameNotes"],
       [method |-> M_PUT,    pattern |-> P_games_id_sync,        handler |-> "syncGameData"],
       [method |-> M_GET,    pattern |-> P_games_id_history,     handler |-> "getGameHistory"],
       [method |-> M_GET,    pattern |-> P_plays,                handler |-> "getPlays"],
       [method |-> M_GET,    pattern |-> P_plays_id,             handler |-> "getPlayById"],
       [method |-> M_POST,   pattern |-> P_plays,                handler |-> "addPlay"],
       [method |-> M_PUT,    pattern |-> P_plays_id,             handler |-> "updatePlay"],
       [method |-> M_DELETE, pattern |-> P_plays_id,             handler |-> "deletePlay"],
       [method |-> M_GET,    pattern |-> P_stats_winners,        handler |-> "getWinnerStats"],
       [method |-> M_GET,    pattern |-> P_stats_totals,         handler |-> "getOverallTotals"],
       [method |-> M_GET,    pattern |-> P_stats_last_played,    handler |-> "getLastPlayed"],
       [method |-> M_GET,    pattern |-> P_stats_recent,         handler |-> "getRecentPlays"],
       [method |-> M_GET,    pattern |-> P_stats_players_player, handler |-> "getPlayerStats"],
       [method |-> M_GET,    pattern |-> P_stats_games,          handler |-> "getGameStats"] >>

(* route.handler(request, env, params, authResult) *)
RunHandler(name, request, params, d) ==
    CASE name = "getGames"         -> getGames(request, params, d)
      [] name = "getGameById"      -> getGameById(request, params, d)
      [] name = "addGame"          -> addGame(request, params, d)
      [] name = "updateGameNotes"  -> updateGameNotes(request, params, d)
      [] name = "syncGameData"     -> syncGameData(request, params, d)
      [] name = "getGameHistory"   -> getGameHistory(request, params, d)
      [] name = "getPlays"         -> getPlays(request, params, d)
      [] name = "getPlayById"      -> getPlayById(request, params, d)
      [] name = "addPlay"          -> addPlay(request, params, d)
      [] name = "updatePlay"       -> updatePlay(request, params, d)
      [] name = "deletePlay"       -> deletePlay(request, params, d)
      [] name = "getWinnerStats"   -> getWinnerStats(request, params, d)
      [] name = "getOverallTotals" -> getOverallTotals(request, params, d)
      [] name = "getLastPlayed"    -> getLastPlayed(request, params, d)
      [] name = "getRecentPlays"   -> getRecentPlays(request, params, d)
      [] name = "getPlayerStats"   -> getPlayerStats(request, params, d)
      [] name = "getGameStats"     -> getGameStats(request, params, d)

(* Indices of the table entries the for loop of handleRequest would select. *)
MatchingRoutes(method, pathname) ==
    {i \in DOMAIN routes :
        routes[i].method = method /\ matchesPattern(pathname, routes[i].pattern)}

(* The loop of handleRequest with a 404 message that leaves the path out. *)
dispatch_unnamedPath(request, hits, d) ==
    LET route == routes[MinOf(hits)]
        params == extractPathParams(request.pathname, route.pattern)
    IN  IF hits = {}
        THEN { [handler |-> "none",
                outcome |-> Returned(createErrorResponse("NOT_FOUND",
                               MSG_route \o request.method \o MSG_not_found, 404), d, 0)] }
        ELSE { [handler |-> route.handler,
                outcome |-> IF o.threw
                            THEN [o EXCEPT !.response =
                                     createErrorResponse("INTERNAL_ERROR", MSG_internal, 500)]
                            ELSE o]
               : o \in RunHandler(route.handler, request, params, d) }

(* The loop of handleRequest over hits, the matching entries of the table:   *)
(* the first one's handler, with the catch around it; 404 when there is none. *)
dispatch(request, hits, d) ==
    LET route == routes[MinOf(hits)]
        params == extractPathParams(request.pathname, route.pattern)
    IN  IF hits = {}
        THEN { [handler |-> "none",
                outcome |-> Returned(createErrorResponse("NOT_FOUND",
                               MSG_route \o request.method \o MSG_space
                               \o request.pathname \o MSG_not_found, 404), d, 0)] }
        ELSE { [handler |-> route.handler,
                outcome |-> IF o.threw
                            THEN [o EXCEPT !.response =
                                     createErrorResponse("INTERNAL_ERROR", MSG_internal, 500)]
                            ELSE o]
               : o \in RunHandler(route.handler, request, params, d) }

(* url.searchParams.get('format') *)
Formats ==
    {Null, S_json, S_csv}

(* handleExport after its authentication step. *)
exportData(format, d) ==
    IF (IF Truthy(format) THEN format ELSE S_json) # S_json
    THEN {Returned(createErrorResponse("UNSUPPORTED_FORMAT", MSG_unsupported_format, 400), d, 0)}
    ELSE { [response |-> createErrorResponse("EXPORT_ERROR", MSG_export_failed, 500),
            db |-> d, queries |-> 3, failure |-> f, threw |-> FALSE] : f \in DbFailures }
         \cup
         { Returned([status  |-> 200,
                     headers |-> ("Content-Type" :> HV_json)
                                 @@ ("Content-Disposition" :> HV_attachment)
                                 @@ ("Access-Control-Allow-Origin" :> S_star),
                     body    |-> [timestamp |-> "now",
                                  version   |-> "1.0",
                                  data      |-> [bgg |-> d.bgg, notes |-> d.notes,
                                                 log |-> d.log]]], d, 3) }

QueryBodies ==
    { InvalidJson, JsonNull, Obj(<<>>), Obj("sql" :> <<>>),
      Obj("sql" :> SQL_select), Obj("sql" :> SQL_select_padded),
      Obj("sql" :> SQL_delete), Obj("sql" :> SQL_drop),
      Obj("sql" :> SQL_update), Obj("sql" :> SQL_insert),
      Obj("sql" :> SQL_pragma), Obj("sql" :> SQL_replace),
      Obj("sql" :> SQL_with_delete) }

(* What D1 does to the store when it runs the statement. *)
Execute(sql, d) ==
    LET s == ToLowerCase(Trim(sql))
        draw == [gameId |-> 1, winner |-> S_Draw]
    IN  IF Includes(s, ToLowerCase(SQL_delete)) \/ StartsWith(s, <<"d","r","o","p">>)
        THEN [d EXCEPT !.log = [i \in PlayIds |-> NoRow]]
        ELSE IF StartsWith(s, <<"u","p","d","a","t","e">>)
        THEN [d EXCEPT !.log = [i \in PlayIds |->
                 IF d.log[i] = NoRow THEN NoRow ELSE [d.log[i] EXCEPT !.winner = S_Draw]]]
        ELSE IF StartsWith(s, <<"i","n","s","e","r","t">>)
        THEN IF NextRowId(d) \in PlayIds
             THEN [d EXCEPT !.log[NextRowId(d)] = draw] ELSE d
        ELSE IF StartsWith(s, <<"r","e","p","l","a","c","e">>)
        THEN [d EXCEPT !.log[1] = draw]
        ELSE d

(* The statement filter of handleQuery. *)
isForbiddenQuery(sql) ==
    LET trimmedSql == ToLowerCase(Trim(sql))
    IN  \/ StartsWith(trimmedSql, <<"d","r","o","p">>)
        \/ StartsWith(trimmedSql, <<"d","e","l","e","t","e">>)
        \/ StartsWith(trimmedSql, <<"u","p","d","a","t","e">>)
        \/ StartsWith(trimmedSql, <<"i","n","s","e","r","t">>)
        \/ Includes(trimmedSql, <<"p","r","a","g","m","a">>)

(* The catch of handleQuery. *)
queryCaught(error, d, n) ==
    [response |-> IF error.kind = "SyntaxError"
                  THEN createErrorResponse("INVALID_JSON", MSG_invalid_json, 400)
                  ELSE createErrorResponse("QUERY_ERROR",
                          MSG_query_failed \o (IF IsNullish(error.message)
                                               THEN S_undefined ELSE error.message), 400),
     db |-> d, queries |-> n, failure |-> error, threw |-> FALSE]

(* handleQuery after its authentication step. *)
runQuery(b, d) ==
    IF BodyError(b) # NoFailure
    THEN {queryCaught(BodyError(b), d, 0)}
    ELSE IF ~Has(b, "sql") \/ ~Truthy(b.fields["sql"])
    THEN {Returned(createErrorResponse("MISSING_SQL", MSG_sql_required, 400), d, 0)}
    ELSE IF isForbiddenQuery(b.fields["sql"])
    THEN {Returned(createErrorResponse("FORBIDDEN_QUERY", MSG_only_select, 403), d, 0)}
    ELSE {queryCaught(f, d, 1) : f \in DbFailures}
         \cup
         { Returned([status  |-> 200,
                     headers |-> ("Content-Type" :> HV_json)
                                 @@ ("Access-Control-Allow-Origin" :> S_star),
                     body    |-> [data |-> Execute(b.fields["sql"], d).log,
                                  meta |-> [query |-> b.fields["sql"]]]],
                    Execute(b.fields["sql"], d), 1) }

handleRoot(request) ==
    [status  |-> 200,
     headers |-> ("Content-Type" :> HV_json) @@ ("Access-Control-Allow-Origin" :> S_star),
     body    |-> [name           |-> "Eurogames API",
                  version        |-> "1.0.0",
                  description    |-> "REST API for Eurogames board game tracking system",
                  authentication |-> "API Key",
                  endpoints      |-> {"games", "plays", "statistics", "utilities"},
                  documentation  |-> "https://github.com/your-repo/eurogames-api"]]

(* The branch fetch takes for the request. *)
fetchTarget(request) ==
    IF request.pathname = P_root \/ request.pathname = <<>> THEN "root"
    ELSE IF request.pathname = P_export /\ request.method = M_GET THEN "export"
    ELSE IF request.pathname = P_query /\ request.method = M_POST THEN "query"
    ELSE "handleRequest"

(***************************************************************************)
(* Inputs: configurations of the worker and requests.                      *)
(***************************************************************************)
Configs ==
    { [REQUIRE_AUTH |-> Undefined, API_KEYS |-> KL_main],
      [REQUIRE_AUTH |-> <<>>,      API_KEYS |-> Undefined],
      [REQUIRE_AUTH |-> RA_False,  API_KEYS |-> KL_messy],
      [REQUIRE_AUTH |-> RA_true,   API_KEYS |-> KL_main],
      [REQUIRE_AUTH |-> RA_true,   API_KEYS |-> KL_messy],
      [REQUIRE_AUTH |-> RA_true,   API_KEYS |-> Undefined],
      [REQUIRE_AUTH |-> RA_zero,   API_KEYS |-> <<>>] }

Methods ==
    {M_GET, M_POST, M_PUT, M_PATCH, M_DELETE, M_OPTIONS, M_HEAD}

Paths ==
    { P_root, P_export, P_query, P_games, P_plays,
      Q_games_1, Q_games_9, Q_games_slash, Q_games_1_notes, Q_games_1_sync,
      Q_games_1_history, Q_plays_1, Q_plays_x,
      P_stats_winners, P_stats_totals, P_stats_last_played, P_stats_recent,
      Q_stats_players_Trish, P_stats_games,
      Q_unknown, Q_export_slash }

(* Authorization and X-API-Key header values, as Headers.get returns them. *)
Credentials ==
    { [authorization |-> Null,           xApiKey |-> Null],
      [authorization |-> Null,           xApiKey |-> <<>>],
      [authorization |-> H_Bearer_admin, xApiKey |-> Null],
      [authorization |-> H_Bearer_user,  xApiKey |-> Null],
      [authorization |-> H_Bearer_ro,    xApiKey |-> Null],
      [authorization |-> H_Bearer_nope,  xApiKey |-> Null],
      [authorization |-> H_Bearer_bad,   xApiKey |-> Null],
      [authorization |-> H_Bearer_odd,   xApiKey |-> Null],
      [authorization |-> H_Bearer_only,  xApiKey |-> K_ro],
      [authorization |-> Null,           xApiKey |-> K_ro2],
      [authorization |-> H_bearer_lc,    xApiKey |-> K_user],
      [authorization |-> H_Bearer_nope,  xApiKey |-> K_admin],
      [authorization |-> Null,           xApiKey |-> K_UK] }

Requests ==
    { [method |-> m, pathname |-> p,
       authorization |-> c.authorization, xApiKey |-> c.xApiKey]
      : m \in Methods, p \in Paths, c \in Credentials }

NoRequest ==
    [method |-> <<>>, pathname |-> <<>>, authorization |-> Null, xApiKey |-> Null]

NoAuth ==
    [outcome |-> "none", context |-> NoContext, response |-> NoResponse]

EmptyStore ==
    [bgg   |-> GameIds,
     notes |-> [g \in GameIds |-> NoNotes],
     log   |-> [i \in PlayIds |-> NoRow]]

InitialStores ==
    { EmptyStore,
      [EmptyStore EXCEPT !.log[1] = [gameId |-> 1, winner |-> S_Andrew]] }

(* authenticateRequest and the route scan are pure functions of the        *)
(* configuration and the request: they are tabulated once over the inputs. *)
AuthDecision ==
    [e \in Configs |-> [r \in Requests |-> authenticateRequest(r, e)]]

RouteScan ==
    [m \in Methods |-> [p \in Paths |-> MatchingRoutes(m, p)]]

(* No concurrent play requests are under study. *)
NoRace ==
    <<>>

(* No call of getPermissionsForLevel is under study. *)
NoGrant ==
    [level |-> Undefined, called |-> FALSE, permissions |-> {}]

(* No call of the path matcher is under study. *)
NoMatch ==
    [pattern |-> <<>>, pathname |-> <<>>, called |-> FALSE,
     matched |-> FALSE, params |-> <<>>]

(***************************************************************************)
(* The state machine: one request in flight at a time.                     *)
(*   pc       position of the request in fetch                             *)
(*   auth     what authenticateRequest returned for it, if it was called   *)
(*   resp     the Response returned                                        *)
(*   handler  the handler whose body ran for it ("none" if none did)       *)
(*   queries  the number of statements issued to the store for it          *)
(*   failure  the failure raised while handling it, if any                 *)
(*   match    the call of the path matcher under study (see MatcherSpec)   *)
(*   race     the concurrent play requests under study (see RaceSpec)       *)
(*   grant    the call of getPermissionsForLevel under study (LevelSpec)    *)
(***************************************************************************)
Init ==
    /\ env \in Configs
    /\ db \in InitialStores
    /\ req = NoRequest
    /\ pc = "idle"
    /\ auth = NoAuth
    /\ resp = NoResponse
    /\ handler = "none"
    /\ queries = 0
    /\ failure = NoFailure
    /\ match = NoMatch
    /\ race = NoRace
    /\ grant = NoGrant

Receive(r) ==
    /\ pc = "idle"
    /\ req' = r
    /\ pc' = "fetch"
    /\ auth' = NoAuth
    /\ resp' = NoResponse
    /\ handler' = "none"
    /\ queries' = 0
    /\ failure' = NoFailure
    /\ UNCHANGED <<race, grant, match, env, db>>

(* fetch: the root path returns handleRoot(request), whatever the method. *)
FetchRoot ==
    /\ pc = "fetch"
    /\ fetchTarget(req) = "root"
    /\ resp' = handleRoot(req)
    /\ handler' = "handleRoot"
    /\ pc' = "done"
    /\ UNCHANGED <<race, grant, match, env, db, req, auth, queries, failure>>

(* The authentication step without the return of the error Response. *)
AuthStep_noReturn(next) ==
    LET a == AuthDecision[env][req]
    IN  /\ auth' = a
        /\ resp' = IF a.response # NoResponse THEN a.response ELSE resp
        /\ pc' = next
        /\ UNCHANGED <<race, grant, match, env, db, req, handler, queries, failure>>

(* The authentication step that opens handleExport and handleQuery and     *)
(* follows the CORS step in handleRequest.                                 *)
AuthStep(next) ==
    LET a == AuthDecision[env][req]
    IN  /\ auth' = a
        /\ IF a.response # NoResponse
           THEN resp' = a.response /\ pc' = "done"
           ELSE resp' = resp /\ pc' = next
        /\ UNCHANGED <<race, grant, match, env, db, req, handler, queries, failure>>

Finish(name, o) ==
    /\ resp' = o.response
    /\ db' = o.db
    /\ handler' = name
    /\ queries' = o.queries
    /\ failure' = o.failure
    /\ pc' = "done"
    /\ UNCHANGED <<race, grant, match, env, req, auth>>

ExportAuth ==
    /\ pc = "fetch"
    /\ fetchTarget(req) = "export"
    /\ AuthStep("export")

ExportRun ==
    /\ pc = "export"
    /\ \E format \in Formats : \E o \in exportData(format, db) :
          Finish("handleExport", o)

QueryAuth ==
    /\ pc = "fetch"
    /\ fetchTarget(req) = "query"
    /\ AuthStep("query")

QueryRun ==
    /\ pc = "query"
    /\ \E b \in QueryBodies : \E o \in runQuery(b, db) :
          Finish("handleQuery", o)

(* handleRequest: the CORS preflight short-circuit. *)
Preflight ==
    /\ pc = "fetch"
    /\ fetchTarget(req) = "handleRequest"
    /\ LET c == handleCORS(req)
       IN  IF c # NoResponse
           THEN resp' = c /\ pc' = "done"
           ELSE resp' = resp /\ pc' = "auth"
    /\ UNCHANGED <<race, grant, match, env, db, req, auth, handler, queries, failure>>

Authenticate ==
    /\ pc = "auth"
    /\ AuthStep("route")

Dispatch ==
    /\ pc = "route"
    /\ \E x \in dispatch(req, RouteScan[req.method][req.pathname], db) :
          Finish(x.handler, x.outcome)

(* The Response is handed back; the worker is ready for the next request. *)
Complete ==
    /\ pc = "done"
    /\ pc' = "idle"
    /\ req' = NoRequest
    /\ auth' = NoAuth
    /\ resp' = NoResponse
    /\ handler' = "none"
    /\ queries' = 0
    /\ failure' = NoFailure
    /\ UNCHANGED <<race, grant, match, env, db>>

Next ==
    \/ pc = "idle" /\ \E r \in Requests : Receive(r)
    \/ FetchRoot
    \/ ExportAuth
    \/ ExportRun
    \/ QueryAuth
    \/ QueryRun
    \/ Preflight
    \/ Authenticate
    \/ Dispatch
    \/ Complete

Spec ==
    Init /\ [][Next]_vars

(***************************************************************************)
(* The path matcher on its own: matchesPattern and extractPathParams are   *)
(* pure functions of (pathname, pattern).  A pattern and a pathname are    *)
(* drawn, and the two functions are applied to them.                       *)
(***************************************************************************)
P_two_holders ==
    <<"/","{","a","}","/","{","b","}">>
P_same_holder ==
    <<"/","v","1","/","{","i","d","}","/","x","/","{","i","d","}">>
Q_games_1_slash ==
    <<"/","v","1","/","g","a","m","e","s","/","1","/">>
Q_plays_slash ==
    <<"/","v","1","/","p","l","a","y","s","/">>
Q_double_slash ==
    <<"/","/","v","1","/","g","a","m","e","s">>
V_1 ==
    <<"1">>
V_42 ==
    <<"4","2">>
V_games ==
    <<"g","a","m","e","s">>
V_braced ==
    <<"{","i","d","}">>

Patterns ==
    {routes[i].pattern : i \in DOMAIN routes} \cup {P_root, P_two_holders, P_same_holder}

(* Values a path segment can hold; the empty one is what a doubled or      *)
(* trailing slash leaves between two separators.                           *)
SegmentValues ==
    {<<>>, V_1, V_42, V_games, V_braced}

PlaceholdersOf(pattern) ==
    LET parts == Split(pattern, "/")
    IN  {i \in 1..Len(parts) : IsPlaceholder(parts[i])}

PlaceholderName(pattern, i) ==
    LET part == Split(pattern, "/")[i]
    IN  SubSeq(part, 2, Len(part) - 1)

RECURSIVE JoinSegments(_)
JoinSegments(parts) ==
    IF Len(parts) = 1
    THEN parts[1]
    ELSE parts[1] \o <<"/">> \o JoinSegments(Tail(parts))

Bindings(pattern) ==
    [{PlaceholderName(pattern, i) : i \in PlaceholdersOf(pattern)} -> SegmentValues]

(* The pattern with every placeholder replaced by the value bound to its name. *)
Instantiate(pattern, binding) ==
    LET parts == Split(pattern, "/")
    IN  JoinSegments([i \in 1..Len(parts) |->
            IF IsPlaceholder(parts[i])
            THEN binding[PlaceholderName(pattern, i)]
            ELSE parts[i]])

MatcherPaths ==
    Paths \cup {Q_games_1_slash, Q_plays_slash, Q_double_slash}

MatcherInputs ==
    { [pattern |-> p, pathname |-> q] : p \in Patterns, q \in MatcherPaths }
    \cup
    UNION { { [pattern |-> p, pathname |-> Instantiate(p, b)] : b \in Bindings(p) }
            : p \in Patterns }

(* The worker with no request in flight, as the studies of single        *)
(* functions leave it.                                                     *)
PipelineAtRest ==
    /\ env = [REQUIRE_AUTH |-> Undefined, API_KEYS |-> Undefined]
    /\ db = EmptyStore
    /\ req = NoRequest
    /\ pc = "idle"
    /\ auth = NoAuth
    /\ resp = NoResponse
    /\ handler = "none"
    /\ queries = 0
    /\ failure = NoFailure

MatcherInit ==
    /\ PipelineAtRest
    /\ grant = NoGrant
    /\ race = NoRace
    /\ \E x \in MatcherInputs :
          match = [pattern |-> x.pattern, pathname |-> x.pathname, called |-> FALSE,
                   matched |-> FALSE, params |-> <<>>]

ApplyMatcher ==
    /\ ~match.called
    /\ match' = [match EXCEPT
                    !.called  = TRUE,
                    !.matched = matchesPattern(match.pathname, match.pattern),
                    !.params  = extractPathParams(match.pathname, match.pattern)]
    /\ UNCHANGED <<race, grant, env, db, req, pc, auth, resp, handler, queries, failure>>

MatcherNext ==
    ApplyMatcher

MatcherSpec ==
    MatcherInit /\ [][MatcherNext]_vars

(***************************************************************************)
(* getPermissionsForLevel on its own: a level is drawn and the function is *)
(* applied to it.                                                          *)
(***************************************************************************)
LV_root ==
    <<"r","o","o","t">>
LV_read_underscore ==
    <<"r","e","a","d","_","o","n","l","y">>
LV_admin_padded ==
    <<" ","a","d","m","i","n">>
LV_administrator ==
    <<"a","d","m","i","n","i","s","t","r","a","t","o","r">>

ToUpperChar(c) ==
    IF \E i \in DOMAIN LowerChars : LowerChars[i] = c
    THEN UpperChars[CHOOSE i \in DOMAIN LowerChars : LowerChars[i] = c]
    ELSE c

(* Every spelling of s in upper and lower case letters. *)
RECURSIVE CaseVariants(_)
CaseVariants(s) ==
    IF s = <<>>
    THEN {<<>>}
    ELSE {<<c>> \o t : c \in {ToLowerChar(s[1]), ToUpperChar(s[1])},
                       t \in CaseVariants(Tail(s))}

AdminSpellings ==
    CaseVariants(L_admin)

UserSpellings ==
    CaseVariants(L_user)

ReadOnlySpellings ==
    CaseVariants(L_read_only) \cup CaseVariants(L_readonly)

(* The level of an entry: the text after its first colon, undefined when   *)
(* the entry has no colon, empty when nothing follows the colon.           *)
Levels ==
    AdminSpellings \cup UserSpellings \cup ReadOnlySpellings
    \cup {Undefined, <<>>}
    \cup CaseVariants(LV_root)
    \cup {LV_read_underscore, LV_admin_padded, LV_administrator}

LevelInit ==
    /\ PipelineAtRest
    /\ match = NoMatch
    /\ race = NoRace
    /\ grant \in {[level |-> l, called |-> FALSE, permissions |-> {}] : l \in Levels}

ApplyLevel ==
    /\ ~grant.called
    /\ grant' = [grant EXCEPT !.called = TRUE,
                              !.permissions = getPermissionsForLevel(grant.level)]
    /\ UNCHANGED <<race, match, env, db, req, pc, auth, resp, handler, queries, failure>>

LevelNext ==
    ApplyLevel

LevelSpec ==
    LevelInit /\ [][LevelNext]_vars

(***************************************************************************)
(* Concurrent updatePlay and deletePlay requests for the same play.  The   *)
(* worker interleaves requests at every await; each statement sent to the  *)
(* store is atomic.  A racer runs the statements of its handler one step   *)
(* at a time on the play with rowid 1:                                     *)
(*   check  SELECT rowid FROM log WHERE rowid = ?                          *)
(*   write  UPDATE log SET winner = ? WHERE rowid = ? / DELETE FROM log    *)
(*   read   SELECT ... FROM log WHERE rowid = ?          (updatePlay only) *)
(* found is what the check saw, changed whether the write touched a row,   *)
(* data the record of the answer (NoRow stands for null).                  *)
(***************************************************************************)
MaxRacers ==
    2

Racers ==
    1..MaxRacers

RacerStarts ==
    { [op |-> "updatePlay", winner |-> w, pc |-> "check", found |-> FALSE,
       changed |-> FALSE, status |-> 0, code |-> "", data |-> NoRow]
      : w \in {S_Trish, S_Draw} }
    \cup
    { [op |-> "deletePlay", winner |-> <<>>, pc |-> "check", found |-> FALSE,
       changed |-> FALSE, status |-> 0, code |-> "", data |-> NoRow] }

RaceInit ==
    /\ env = [REQUIRE_AUTH |-> Undefined, API_KEYS |-> Undefined]
    /\ db \in InitialStores
    /\ req = NoRequest
    /\ pc = "idle"
    /\ auth = NoAuth
    /\ resp = NoResponse
    /\ handler = "none"
    /\ queries = 0
    /\ failure = NoFailure
    /\ match = NoMatch
    /\ grant = NoGrant
    /\ race \in [Racers -> RacerStarts]

RaceStep(p, next) ==
    /\ race' = [race EXCEPT ![p] = next]
    /\ UNCHANGED <<grant, match, env, req, pc, auth, resp, handler, queries, failure>>

(* existingPlay: 404 PLAY_NOT_FOUND when the row is absent. *)
CheckPlay(p) ==
    /\ race[p].pc = "check"
    /\ db' = db
    /\ IF PlayExists(db, 1)
       THEN RaceStep(p, [race[p] EXCEPT !.found = TRUE, !.pc = "write"])
       ELSE RaceStep(p, [race[p] EXCEPT !.pc = "done", !.status = 404,
                                        !.code = "PLAY_NOT_FOUND"])

(* UPDATE log SET winner = ? WHERE rowid = ?: no row, no change, no error. *)
UpdateRow(p) ==
    /\ race[p].pc = "write"
    /\ race[p].op = "updatePlay"
    /\ db' = IF PlayExists(db, 1)
             THEN [db EXCEPT !.log[1].winner = race[p].winner]
             ELSE db
    /\ RaceStep(p, [race[p] EXCEPT !.changed = PlayExists(db, 1), !.pc = "read"])

(* updatedPlay = SELECT ... first(); return createResponse(updatedPlay) *)
ReadBack(p) ==
    /\ race[p].pc = "read"
    /\ db' = db
    /\ RaceStep(p, [race[p] EXCEPT !.data = LogRow(db, 1), !.status = 200,
                                   !.pc = "done"])

(* DELETE FROM log WHERE rowid = ?; return 204 *)
DeleteRow(p) ==
    /\ race[p].pc = "write"
    /\ race[p].op = "deletePlay"
    /\ db' = [db EXCEPT !.log[1] = NoRow]
    /\ RaceStep(p, [race[p] EXCEPT !.changed = PlayExists(db, 1), !.status = 204,
                                   !.pc = "done"])

(* A statement rejects: handleDatabaseError answers 500. *)
StatementFails(p) ==
    /\ race[p].pc \in {"check", "write", "read"}
    /\ db' = db
    /\ RaceStep(p, [race[p] EXCEPT !.status = 500, !.code = "DATABASE_ERROR",
                                   !.pc = "done"])

RaceNext ==
    \E p \in Racers :
        \/ CheckPlay(p)
        \/ UpdateRow(p)
        \/ ReadBack(p)
        \/ DeleteRow(p)
        \/ StatementFails(p)

RaceSpec ==
    RaceInit /\ [][RaceNext]_vars

(***************************************************************************)
(* AUTH_SETUP.md: the documented permission levels and permission matrix.  *)
(***************************************************************************)
DocumentedPermissions(level) ==
    CASE level = L_admin     -> {PERM_read, PERM_write, PERM_delete, PERM_export, PERM_query}
      [] level = L_user      -> {PERM_read, PERM_write}
      [] level = L_read_only -> {PERM_read}
      [] OTHER               -> {}

(* A row "METHOD base/*" covers base and every path below it. *)
PermissionMatrix ==
    << [method |-> M_GET,    base |-> P_games,  below |-> TRUE,  permission |-> PERM_read],
       [method |-> M_POST,   base |-> P_games,  below |-> FALSE, permission |-> PERM_write],
       [method |-> M_PATCH,  base |-> P_games,  below |-> TRUE,  permission |-> PERM_write],
       [method |-> M_GET,    base |-> P_plays,  below |-> TRUE,  permission |-> PERM_read],
       [method |-> M_POST,   base |-> P_plays,  below |-> FALSE, permission |-> PERM_write],
       [method |-> M_PUT,    base |-> P_plays,  below |-> TRUE,  permission |-> PERM_write],
       [method |-> M_DELETE, base |-> P_plays,  below |-> TRUE,  permission |-> PERM_delete],
       [method |-> M_GET,    base |-> P_stats,  below |-> TRUE,  permission |-> PERM_read],
       [method |-> M_GET,    base |-> P_export, below |-> FALSE, permission |-> PERM_export],
       [method |-> M_POST,   base |-> P_query,  below |-> FALSE, permission |-> PERM_query] >>

MatrixRows(method, pathname) ==
    {i \in DOMAIN PermissionMatrix :
        /\ PermissionMatrix[i].method = method
        /\ \/ pathname = PermissionMatrix[i].base
           \/ /\ PermissionMatrix[i].below
              /\ StartsWith(pathname, PermissionMatrix[i].base \o <<"/">>)}

(***************************************************************************)
(* Vocabulary of the properties.                                           *)
(***************************************************************************)
(* The response of the request in flight has been produced. *)
Answered ==
    pc = "done"

(* Authentication is required: REQUIRE_AUTH is set and is not "false". *)
AuthOn ==
    /\ env.REQUIRE_AUTH # Undefined
    /\ env.REQUIRE_AUTH # <<>>
    /\ ToLowerCase(env.REQUIRE_AUTH) # S_false

(* REQUIRE_AUTH is absent or equals "false" case-insensitively. *)
DevMode ==
    \/ env.REQUIRE_AUTH = Undefined
    \/ ToLowerCase(env.REQUIRE_AUTH) = S_false

NoKeyHeaders ==
    req.authorization = Null /\ req.xApiKey = Null

(* The exempt public routes: GET on the root path, OPTIONS on any path. *)
Exempt ==
    \/ req.method = M_GET /\ req.pathname = P_root
    \/ req.method = M_OPTIONS

(* The secrets and levels of the configured key list, entry by entry. *)
KeyEntriesOf ==
    [e \in Configs |->
        IF e.API_KEYS = Undefined \/ e.API_KEYS = <<>>
        THEN <<>>
        ELSE LET entries == Split(e.API_KEYS, ",")
             IN  [i \in DOMAIN entries |->
                     [secret |-> At(Split(Trim(entries[i]), ":"), 0),
                      level  |-> At(Split(Trim(entries[i]), ":"), 1)]]]

KeyEntries ==
    KeyEntriesOf[env]

(* The key the request presents: the bearer token, else the X-API-Key value. *)
PresentedKey ==
    IF req.authorization # Null /\ StartsWith(req.authorization, S_Bearer)
    THEN SubSeq(req.authorization, Len(S_Bearer) + 1, Len(req.authorization))
    ELSE req.xApiKey

KeyPresented ==
    PresentedKey # Null /\ PresentedKey # <<>>

KeyKnown ==
    \E i \in DOMAIN KeyEntries : KeyEntries[i].secret = PresentedKey

(* The level of the first entry of the key list that holds the presented key. *)
PresentedLevel ==
    KeyEntries[MinOf({i \in DOMAIN KeyEntries : KeyEntries[i].secret = PresentedKey})].level

AuthFailed ==
    auth.outcome \in {"KeyMissing", "KeyInvalid", "InsufficientPermission"}

AuthPassed ==
    auth.outcome \in {"PublicAllowed", "DevModeAllowed", "Authorized"}

AuthErrorCodes ==
    {"MISSING_API_KEY", "INVALID_API_KEY", "INSUFFICIENT_PERMISSIONS"}

(***************************************************************************)
(* C1: with authentication required, every request that carries no API key *)
(* and is neither GET on the root path nor an OPTIONS request is answered  *)
(* 401 MISSING_API_KEY, for every method and path, the non-GET methods on  *)
(* the root path included.                                                 *)
(***************************************************************************)
C1_NoKeyYieldsMissingApiKey ==
    (Answered /\ AuthOn /\ NoKeyHeaders /\ ~Exempt)
        => (resp.status = 401 /\ ErrorCode(resp) = "MISSING_API_KEY")

(***************************************************************************)
(* C2: with authentication required, a non-exempt request whose presented  *)
(* key equals no secret of the configured key list (an absent or empty key *)
(* list included) is answered 401 INVALID_API_KEY, whatever the method and *)
(* path.                                                                   *)
(***************************************************************************)
C2_UnknownKeyYieldsInvalidApiKey ==
    (Answered /\ AuthOn /\ ~Exempt /\ KeyPresented /\ ~KeyKnown)
        => (resp.status = 401 /\ ErrorCode(resp) = "INVALID_API_KEY")

(***************************************************************************)
(* C3: with authentication required, for every documented key level and    *)
(* every endpoint of the documented permission matrix, a request with a    *)
(* valid key passes authorization exactly when the level's permission set  *)
(* contains the permission the matrix lists for the endpoint, and is       *)
(* answered 403 INSUFFICIENT_PERMISSIONS otherwise.                        *)
(***************************************************************************)
C3_MatrixDecidesAuthorization ==
    (/\ Answered /\ AuthOn /\ KeyPresented /\ KeyKnown
     /\ PresentedLevel \in {L_admin, L_user, L_read_only})
        => \A i \in MatrixRows(req.method, req.pathname) :
              IF PermissionMatrix[i].permission \in DocumentedPermissions(PresentedLevel)
              THEN /\ auth.outcome = "Authorized"
                   /\ ErrorCode(resp) \notin AuthErrorCodes
              ELSE /\ auth.outcome = "InsufficientPermission"
                   /\ resp.status = 403
                   /\ ErrorCode(resp) = "INSUFFICIENT_PERMISSIONS"

C3_UserKeyRefusedExport ==
    /\ Answered /\ AuthOn /\ KeyPresented /\ KeyKnown
    /\ PresentedLevel = L_user
    /\ req.method = M_GET /\ req.pathname = P_export
    /\ resp.status = 403
    /\ ErrorCode(resp) = "INSUFFICIENT_PERMISSIONS"

(***************************************************************************)
(* C4: with authentication required, no step taken for a request that      *)
(* presents a read-only-level key changes the data store.                  *)
(***************************************************************************)
ReadOnlyKeyInFlight ==
    /\ pc # "idle" /\ AuthOn /\ KeyPresented /\ KeyKnown
    /\ PresentedLevel # Undefined
    /\ ToLowerCase(PresentedLevel) \in {L_read_only, L_readonly}

C4_ReadOnlyKeyNeverWrites ==
    [][ReadOnlyKeyInFlight => db' = db]_vars

C4_ReadOnlyKeyRead ==
    /\ Answered /\ ReadOnlyKeyInFlight
    /\ handler = "getPlayById"
    /\ queries > 0
    /\ resp.status = 200

(***************************************************************************)
(* C5: when REQUIRE_AUTH is absent or equals "false" case-insensitively,   *)
(* authentication answers no request with 401 or 403, and allows every     *)
(* non-exempt request with the full permission set, whether the request    *)
(* carries no key, a valid key or an invalid key: authenticateRequest      *)
(* returns that decision for the request in flight, and it is the decision *)
(* the pipeline holds whenever it has called authenticateRequest.          *)
(***************************************************************************)
C5_DevModeGrantsAll ==
    DevMode =>
        /\ ~AuthFailed
        /\ ErrorCode(resp) \notin AuthErrorCodes
        /\ (pc # "idle" /\ ~Exempt) =>
              LET decision == authenticateRequest(req, env)
              IN  /\ decision.outcome = "DevModeAllowed"
                  /\ decision.context.authenticated
                  /\ decision.context.permissions = AllPermissions
        /\ (auth.outcome # "none" /\ ~Exempt) =>
              /\ auth.outcome = "DevModeAllowed"
              /\ auth.context.authenticated
              /\ auth.context.permissions = AllPermissions

C5_DevModeInvalidKeyDeletes ==
    /\ Answered /\ DevMode
    /\ env.REQUIRE_AUTH # Undefined
    /\ KeyPresented /\ ~KeyKnown
    /\ auth.outcome = "DevModeAllowed"
    /\ handler = "deletePlay"
    /\ resp.status = 204

(***************************************************************************)
(* C6: when authentication ends in KeyMissing, KeyInvalid or               *)
(* InsufficientPermission, the request ends with that error response: no   *)
(* route is dispatched, no handler runs and no statement is issued.        *)
(***************************************************************************)
C6_AuthFailureAborts ==
    AuthFailed =>
        /\ Answered
        /\ resp = auth.response
        /\ resp.status \in {401, 403}
        /\ ErrorCode(resp) \in AuthErrorCodes
        /\ handler = "none"
        /\ queries = 0

C6_ExportRefused ==
    /\ Answered
    /\ auth.outcome = "InsufficientPermission"
    /\ req.method = M_GET /\ req.pathname = P_export
    /\ handler = "none"

(***************************************************************************)
(* C7: an OPTIONS request to any path, with no key and authentication      *)
(* required, is answered 200, never 401 or 403.                            *)
(***************************************************************************)
C7_OptionsAnswered200 ==
    (Answered /\ AuthOn /\ NoKeyHeaders /\ req.method = M_OPTIONS)
        => resp.status = 200

C7_OptionsOnExport ==
    /\ Answered /\ AuthOn /\ NoKeyHeaders
    /\ req.method = M_OPTIONS /\ req.pathname = P_export
    /\ resp.status = 200

(***************************************************************************)
(* C8: any OPTIONS request, on any path including the root path, is        *)
(* short-circuited before authentication and routing: empty body, only the *)
(* CORS headers plus Access-Control-Max-Age 86400, and no handler runs.    *)
(***************************************************************************)
C8_OptionsShortCircuited ==
    (Answered /\ req.method = M_OPTIONS)
        => /\ resp.body = NoBody
           /\ DOMAIN resp.headers = {"Access-Control-Allow-Origin",
                                     "Access-Control-Allow-Methods",
                                     "Access-Control-Allow-Headers",
                                     "Access-Control-Max-Age"}
           /\ resp.headers["Access-Control-Max-Age"] = HV_max_age
           /\ auth.outcome = "none"
           /\ handler = "none"

(***************************************************************************)
(* C9: a request that passes authentication and whose (method, path)       *)
(* matches no entry of the route table is answered 404 NOT_FOUND naming    *)
(* the method and path, and no handler runs; failing authentication, it is *)
(* answered the 401/403 error and not 404.                                 *)
(***************************************************************************)
NoRouteMatches ==
    \A i \in DOMAIN routes :
        ~(routes[i].method = req.method /\ matchesPattern(req.pathname, routes[i].pattern))

NotFoundNamingRequest ==
    /\ resp.status = 404
    /\ ErrorCode(resp) = "NOT_FOUND"
    /\ Includes(ErrorMessage(resp), req.method)
    /\ Includes(ErrorMessage(resp), req.pathname)
    /\ handler = "none"

AuthErrorNot404 ==
    /\ resp.status \in {401, 403}
    /\ ErrorCode(resp) \in AuthErrorCodes
    /\ handler = "none"

ServedOutsideTable ==
    \/ req.method = M_GET /\ req.pathname = P_export
    \/ req.method = M_POST /\ req.pathname = P_query

UnexpectedFailure ==
    /\ failure.kind \in {"Error", "TypeError", "value"}
    /\ ~(failure.message # Undefined /\ Includes(failure.message, S_unique))

C10_FailureShapedAs500 ==
    (Answered /\ AuthPassed /\ UnexpectedFailure)
        => /\ resp.status = 500
           /\ "error" \in DOMAIN resp.body
           /\ (failure.message # Undefined
                  => ~Includes(ErrorMessage(resp), failure.message))

(***************************************************************************)
(* Vocabulary of the response envelope.                                    *)
(***************************************************************************)
S_X_API_Key ==
    <<"X","-","A","P","I","-","K","e","y">>

HasBody ==
    resp.body # NoBody

CorsTriad ==
    {"Access-Control-Allow-Origin", "Access-Control-Allow-Methods",
     "Access-Control-Allow-Headers"}

(***************************************************************************)
(* C11: every response returned carries the three CORS headers             *)
(* Access-Control-Allow-Origin, Access-Control-Allow-Methods and           *)
(* Access-Control-Allow-Headers, the last one naming X-API-Key, and every  *)
(* response with a body carries Content-Type application/json.             *)
(***************************************************************************)
C11_EveryResponseCarriesCors ==
    Answered =>
        /\ CorsTriad \subseteq DOMAIN resp.headers
        /\ Includes(resp.headers["Access-Control-Allow-Headers"], S_X_API_Key)
        /\ HasBody => /\ "Content-Type" \in DOMAIN resp.headers
                      /\ resp.headers["Content-Type"] = HV_json

(***************************************************************************)
(* C12: every response body holds exactly one of the top-level members     *)
(* data and error, on every endpoint, the root path included.              *)
(***************************************************************************)
C12_BodyHoldsDataXorError ==
    (Answered /\ HasBody) =>
        ("data" \in DOMAIN resp.body) # ("error" \in DOMAIN resp.body)

(***************************************************************************)
(* C13: the keyId of an Authorized decision is the first 8 characters of   *)
(* the secret followed by the ellipsis marker, and never contains the      *)
(* complete secret, whatever the length of the configured secret.          *)
(***************************************************************************)
C13_KeyIdHidesSecret ==
    auth.outcome = "Authorized" =>
        /\ auth.context.keyId
              = SubSeq(PresentedKey, 1, MinOf({8, Len(PresentedKey)})) \o S_ellipsis
        /\ ~Includes(auth.context.keyId, PresentedKey)

(***************************************************************************)
(* C14: the key of a request is the bearer token of its Authorization      *)
(* header when there is one and the X-API-Key value otherwise: the         *)
(* decision is the one of the request that carries that key alone, it is   *)
(* KeyMissing exactly when neither header supplies a key, and never        *)
(* KeyMissing when X-API-Key holds a key, whatever Authorization holds.    *)
(***************************************************************************)
C14_BearerThenApiKeyHeader ==
    (pc # "idle" /\ AuthOn /\ ~Exempt) =>
        LET decision    == authenticateRequest(req, env)
            withKeyOnly == [req EXCEPT !.authorization = Null,
                                       !.xApiKey = PresentedKey]
        IN  /\ decision = authenticateRequest(withKeyOnly, env)
            /\ (decision.outcome = "KeyMissing") <=> ~KeyPresented
            /\ (req.xApiKey # Null /\ req.xApiKey # <<>>)
                  => decision.outcome # "KeyMissing"
            /\ auth.outcome # "none" => auth = decision

C14_ApiKeyHeaderUsed ==
    /\ Answered /\ AuthOn /\ ~Exempt
    /\ req.authorization = H_bearer_lc
    /\ req.xApiKey = K_user
    /\ auth.outcome = "Authorized"
    /\ auth.context.keyId = K_user \o S_ellipsis

(***************************************************************************)
(* C15: the first entry of the key list whose secret equals the presented  *)
(* key exactly decides: a key equal to no secret is KeyInvalid, and a key  *)
(* that several entries hold is given the permission set of the earliest   *)
(* of them, which later entries never override.                            *)
(***************************************************************************)
C15_FirstMatchingEntryDecides ==
    (pc # "idle" /\ AuthOn /\ ~Exempt /\ KeyPresented) =>
        LET decision == AuthDecision[env][req]
            required == getRequiredPermission(req.method, req.pathname)
        IN  /\ auth.outcome # "none" => auth = decision
            /\ IF ~KeyKnown
               THEN decision.outcome = "KeyInvalid"
               ELSE LET granted == getPermissionsForLevel(PresentedLevel)
                    IN  IF required \in granted
                        THEN /\ decision.outcome = "Authorized"
                             /\ decision.context.permissions = granted
                        ELSE decision.outcome = "InsufficientPermission"

C15_EarliestOfTwoEntriesExports ==
    /\ Answered /\ AuthOn
    /\ env.API_KEYS = KL_messy
    /\ PresentedKey = K_user
    /\ Cardinality({i \in DOMAIN KeyEntries : KeyEntries[i].secret = K_user}) = 2
    /\ auth.outcome = "Authorized"
    /\ auth.context.permissions = AllPermissions
    /\ handler = "handleExport"

(***************************************************************************)
(* C16: a key whose deciding entry has no colon or names an unrecognized   *)
(* level resolves to the empty permission set and is never Authorized, on  *)
(* any method and path; the well-formed entries of the same list still     *)
(* authenticate with the permission sets of their own levels.              *)
(***************************************************************************)
RecognizedLevels ==
    {L_admin, L_user, L_read_only, L_readonly}

LevelRecognized(level) ==
    level # Undefined /\ ToLowerCase(level) \in RecognizedLevels

(* The documented permission set of a recognized level, in any letter case. *)
OwnPermissions(level) ==
    LET l == ToLowerCase(level)
    IN  DocumentedPermissions(IF l = L_readonly THEN L_read_only ELSE l)

MalformedEntries ==
    {i \in DOMAIN KeyEntries : ~LevelRecognized(KeyEntries[i].level)}

C16_MalformedEntryFailsSafe ==
    (pc # "idle" /\ AuthOn /\ ~Exempt /\ KeyPresented /\ KeyKnown) =>
        LET decision == AuthDecision[env][req]
            result   == validateApiKey(PresentedKey, env)
            required == getRequiredPermission(req.method, req.pathname)
        IN  /\ auth.outcome # "none" => auth = decision
            /\ IF ~LevelRecognized(PresentedLevel)
               THEN /\ result.valid
                    /\ result.permissions = {}
                    /\ decision.outcome = "InsufficientPermission"
                    /\ auth.outcome # "Authorized"
               ELSE MalformedEntries # {} =>
                      /\ result.permissions = OwnPermissions(PresentedLevel)
                      /\ decision.outcome = IF required \in result.permissions
                                            THEN "Authorized"
                                            ELSE "InsufficientPermission"

C16_KeyWithoutLevelRefusedRead ==
    /\ Answered /\ AuthOn
    /\ KeyPresented /\ KeyKnown
    /\ PresentedLevel = Undefined
    /\ req.method = M_GET /\ req.pathname = P_games
    /\ resp.status = 403
    /\ handler = "none"

(***************************************************************************)
(* Vocabulary of the path matcher.                                         *)
(***************************************************************************)
(* The number of '/'-delimited segments of a string. *)
SegmentCount(s) ==
    Cardinality({i \in 1..Len(s) : s[i] = "/"}) + 1

(***************************************************************************)
(* C17: for every pattern and path whose '/'-delimited segment counts      *)
(* differ, matchesPattern is false: a path with an extra segment, an empty *)
(* trailing one included, never matches a shorter pattern.                 *)
(***************************************************************************)
C17_SegmentCountsMustAgree ==
    (match.called /\ SegmentCount(match.pathname) # SegmentCount(match.pattern))
        => ~match.matched

C17_TrailingSlashUnmatched ==
    /\ match.called
    /\ match.pattern = P_games_id
    /\ match.pathname = Q_games_1_slash
    /\ ~match.matched

(***************************************************************************)
(* C18: a placeholder segment matches one path segment of non-empty        *)
(* content: no path with an empty segment at a placeholder position        *)
(* matches (as /v1/games/ against /v1/games/{id}), so no parameter is      *)
(* bound to the empty value.                                               *)
(***************************************************************************)
C18_PlaceholderNeedsContent ==
    (match.called /\ match.matched) =>
        /\ \A i \in PlaceholdersOf(match.pattern) :
              Split(match.pathname, "/")[i] # <<>>
        /\ \A n \in DOMAIN match.params : match.params[n] # <<>>

(***************************************************************************)
(* C19: for every pattern and every binding of its placeholder names to    *)
(* segment values, the instantiated path matches the pattern and           *)
(* extractPathParams returns exactly the binding: every placeholder name   *)
(* with the value substituted for it, and no other name.                   *)
(***************************************************************************)
C19_ExtractRecoversBinding ==
    match.called =>
        \A b \in Bindings(match.pattern) :
            match.pathname = Instantiate(match.pattern, b)
                => /\ match.matched
                   /\ DOMAIN match.params = DOMAIN b
                   /\ \A n \in DOMAIN b : match.params[n] = b[n]

C19_TwoPlaceholdersRecovered ==
    /\ match.called
    /\ match.pattern = P_two_holders
    /\ match.pathname = Instantiate(P_two_holders, (<<"a">> :> V_42) @@ (<<"b">> :> V_games))
    /\ match.matched
    /\ match.params[<<"a">>] = V_42
    /\ match.params[<<"b">>] = V_games

(***************************************************************************)
(* C20: getRequiredPermission gives a permission for every method and      *)
(* path, by the rules in priority order: GET /v1/export gives export, any  *)
(* other GET read, POST /v1/query query, any other POST and every PUT and  *)
(* PATCH write, DELETE delete, and every other method read; it is the      *)
(* permission an InsufficientPermission response names.                    *)
(***************************************************************************)
C20_RequiredPermissionRules ==
    pc # "idle" =>
        LET m == req.method
            p == req.pathname
            required == getRequiredPermission(m, p)
        IN  /\ required \in AllPermissions
            /\ (m = M_GET /\ p = P_export) => required = PERM_export
            /\ (m = M_GET /\ p # P_export) => required = PERM_read
            /\ (m = M_POST /\ p = P_query) => required = PERM_query
            /\ (m = M_POST /\ p # P_query) => required = PERM_write
            /\ m \in {M_PUT, M_PATCH} => required = PERM_write
            /\ m = M_DELETE => required = PERM_delete
            /\ m \notin {M_GET, M_POST, M_PUT, M_PATCH, M_DELETE} => required = PERM_read
            /\ auth.outcome = "InsufficientPermission"
                  => ErrorMessage(resp) = MSG_requires \o required \o MSG_permission

C20_QueryPermissionAsked ==
    /\ Answered
    /\ req.method = M_POST /\ req.pathname = P_query
    /\ auth.outcome = "InsufficientPermission"
    /\ Includes(ErrorMessage(resp), PERM_query)

(***************************************************************************)
(* C21: getPermissionsForLevel gives a permission set for every level, in  *)
(* any letter case: admin gives {read, write, delete, export, query}, user *)
(* gives {read, write}, read-only and readonly give {read}, and every      *)
(* other level, the empty and the missing one included, gives the empty    *)
(* set.                                                                    *)
(***************************************************************************)
C21_LevelsTotalAnyCase ==
    grant.called =>
        grant.permissions =
            IF grant.level \in AdminSpellings
            THEN {PERM_read, PERM_write, PERM_delete, PERM_export, PERM_query}
            ELSE IF grant.level \in UserSpellings THEN {PERM_read, PERM_write}
            ELSE IF grant.level \in ReadOnlySpellings THEN {PERM_read}
            ELSE {}

C21_MixedCaseReadOnly ==
    /\ grant.called
    /\ grant.level = <<"R","e","a","d","-","O","n","l","y">>
    /\ grant.permissions = {PERM_read}

(***************************************************************************)
(* C22: POST /v1/query runs a submitted statement against the store only   *)
(* if it is a SELECT: a statement that is not a SELECT is never executed   *)
(* (it is answered 403 FORBIDDEN_QUERY) and the query handler leaves the   *)
(* store unchanged.                                                        *)
(***************************************************************************)
IsSelect(sql) ==
    StartsWith(ToLowerCase(Trim(sql)), <<"s","e","l","e","c","t">>)

C22_OnlySelectExecuted ==
    [][ (handler' = "handleQuery" /\ pc' = "done" /\ pc = "query")
            => /\ db' = db
               /\ resp'.status = 200 => IsSelect(resp'.body.meta.query) ]_vars

(***************************************************************************)
(* C23: with authentication required, whenever a data handler (a handler   *)
(* of the route table, handleExport or handleQuery past its authentication *)
(* step) has run for a request, the request presented a key of the key     *)
(* list whose permission set holds the permission required for its method  *)
(* and path; no data handler runs under the unauthenticated public         *)
(* decision.                                                               *)
(***************************************************************************)
DataHandlerRan ==
    handler \notin {"none", "handleRoot"}

C23_DataHandlerNeedsGrantedKey ==
    (AuthOn /\ DataHandlerRan) =>
        /\ KeyPresented
        /\ KeyKnown
        /\ getRequiredPermission(req.method, req.pathname)
              \in getPermissionsForLevel(PresentedLevel)
        /\ auth.outcome = "Authorized"
        /\ auth.context.authenticated
        /\ auth.context.permissions = getPermissionsForLevel(PresentedLevel)

C23_WriteKeyAddsPlay ==
    /\ Answered /\ AuthOn
    /\ handler = "addPlay"
    /\ PresentedKey = K_user
    /\ PresentedLevel = L_user
    /\ resp.status = 201

(***************************************************************************)
(* C24: the route table is unambiguous: for every method and path at most  *)
(* one entry has that method and a pattern matching the path, so the       *)
(* handler that first-match-wins selects is the handler of every matching  *)
(* entry and does not depend on the order of the entries.                  *)
(***************************************************************************)
(* Two patterns that some path matches both: equal segment counts and, at  *)
(* every position, a placeholder in one of them or the same literal.       *)
PatternsOverlap(p, q) ==
    LET pp == Split(p, "/")
        qq == Split(q, "/")
    IN  /\ Len(pp) = Len(qq)
        /\ \A i \in 1..Len(pp) :
              IsPlaceholder(pp[i]) \/ IsPlaceholder(qq[i]) \/ pp[i] = qq[i]

NoTwoEntriesOverlap ==
    \A i, j \in DOMAIN routes :
        (i # j /\ routes[i].method = routes[j].method)
            => ~PatternsOverlap(routes[i].pattern, routes[j].pattern)

C24_RouteTableUnambiguous ==
    /\ NoTwoEntriesOverlap
    /\ pc # "idle" =>
          LET hits == RouteScan[req.method][req.pathname]
          IN  /\ Cardinality(hits) <= 1
              /\ (pc = "done" /\ auth.outcome # "none" /\ AuthPassed
                     /\ fetchTarget(req) = "handleRequest")
                    => \A i \in DOMAIN routes :
                          i \in hits <=> routes[i].handler = handler

C24_HistoryRouteSelected ==
    /\ Answered
    /\ req.method = M_GET /\ req.pathname = Q_games_1_history
    /\ handler = "getGameHistory"
    /\ Cardinality(RouteScan[req.method][req.pathname]) = 1

(***************************************************************************)
(* C25: every paginated list endpoint (getGames, getPlays, getWinnerStats, *)
(* getLastPlayed, getRecentPlays, getGameHistory) binds its list statement *)
(* to an integer limit between 1 and 500 and an integer offset of at least *)
(* 0, whatever the limit and offset parameters hold.  The limit and offset *)
(* bound are the ones the paginated answer reports.                        *)
(***************************************************************************)
ListHandlers ==
    {"getGames", "getPlays", "getWinnerStats", "getLastPlayed",
     "getRecentPlays", "getGameHistory"}

C25_PageWithinBounds ==
    (Answered /\ handler \in ListHandlers /\ "meta" \in DOMAIN resp.body) =>
        /\ ~resp.body.meta.limit.isNaN
        /\ resp.body.meta.limit.value \in 1..500
        /\ ~resp.body.meta.offset.isNaN
        /\ resp.body.meta.offset.value >= 0

(***************************************************************************)
(* C26: under every interleaving of concurrent updatePlay and deletePlay   *)
(* requests for the same play, an updatePlay answered 200 returns the      *)
(* non-null record of a play it updated, a deletePlay is answered 204 only *)
(* when it removed a play that existed, and a request that finds the play  *)
(* absent is answered 404 PLAY_NOT_FOUND.                                  *)
(***************************************************************************)
C26_RacingPlayRequestsAnswerTruthfully ==
    \A p \in DOMAIN race :
        race[p].pc = "done" =>
            /\ (race[p].op = "updatePlay" /\ race[p].status = 200)
                  => (race[p].data # NoRow /\ race[p].changed)
            /\ (race[p].op = "deletePlay" /\ race[p].status = 204)
                  => race[p].changed
            /\ (~race[p].found /\ race[p].status # 500)
                  => (race[p].status = 404 /\ race[p].code = "PLAY_NOT_FOUND")

====
